---- MODULE Spec2Model ----
(***************************************************************************)
(* A model of 3dmm-dump: the Kauai bit decoders (KCDC, KCD2), the          *)
(* byte-order loader, the chunky archive index, and the texture atlas      *)
(* pipeline of main (pack_textures, pack_to_minimal_square, blit) with the *)
(* template workers that run it.                                           *)
(*                                                                         *)
(* Bytes are integers 0..255, a byte slice is a sequence of bytes, a bit   *)
(* slice (bitvec, Lsb0 over u8) is a sequence of 0/1 in stream order.      *)
(* Results of fallible functions are records with a tag "Ok", "Err" or     *)
(* "Panic" (an index out of range in a slice expression).                  *)
(***************************************************************************)
EXTENDS Integers, Sequences, FiniteSets, TLC

VARIABLES
    dec,        \* the frame of kauai::decode / kcdc::decode / kcd2::decode
    rol,        \* one call of kcdc::read_offset_length on a bit slice
    chunky,     \* the archive bytes and the ChunkyFile loaded from them
    call,       \* the last get_child or get_chunk call on the ChunkyFile
    sq,         \* the frame of pack_to_minimal_square
    tex,        \* the template workers of main: pack_textures and export_model
    bl,         \* one call of blit on a canvas
    lst,        \* a glf::List loaded from a chunk and the ListItems over it
    tmap,       \* one call of TextureMap::load
    modl,       \* one call of Model::load
    gltf        \* one call of export_model: the document and the buffer

atlasVars == <<sq, tex, bl>>

loadVars == <<lst, tmap, modl, gltf>>

vars == <<dec, rol, chunky, call, atlasVars, loadVars>>

(***************************************************************************)
(* Slices                                                                  *)
(***************************************************************************)
Min(a, b) == IF a < b THEN a ELSE b

Take(s, n) == SubSeq(s, 1, n)

Drop(s, n) == SubSeq(s, n + 1, Len(s))

RECURSIVE Flatten(_)
Flatten(ss) == IF ss = <<>> THEN <<>> ELSE Head(ss) \o Flatten(Tail(ss))

(***************************************************************************)
(* Bit slices: view_bits::<Lsb0>, load_le, leading_ones                    *)
(***************************************************************************)
Pow2(k) == 2 ^ k

\* bit i (0-based) of the slice is bit (i mod 8) of byte (i div 8), least
\* significant bit first
ViewBits(bytes) ==
    [i \in 1..(8 * Len(bytes)) |->
        (bytes[((i - 1) \div 8) + 1] \div Pow2((i - 1) % 8)) % 2]

\* BitField::load_le on an Lsb0 slice: the first bit is the least significant
RECURSIVE LoadLe(_)
LoadLe(bits) == IF bits = <<>> THEN 0 ELSE Head(bits) + 2 * LoadLe(Tail(bits))

RECURSIVE LeadingOnes(_)
LeadingOnes(bits) ==
    IF bits = <<>> \/ Head(bits) = 0 THEN 0 ELSE 1 + LeadingOnes(Tail(bits))

\* u32 big-endian from four bytes (values below 2^31 in this model)
ReadU32BE(b) == ((b[1] * 256 + b[2]) * 256 + b[3]) * 256 + b[4]

(***************************************************************************)
(* kauai/kcdc.rs                                                           *)
(***************************************************************************)
OFFSET_STOP == 1053248

None == [some |-> FALSE]

\* mutant of IsStop: the sentinel compared off by one
IsStop_m(offset) == offset = OFFSET_STOP - 1

\* kcdc.rs 35 and 79: offset == OFFSET_STOP
IsStop(offset) == offset = OFFSET_STOP

\* mutant of OffsetFamily: the base of the 12-bit family off by one
OffsetFamily_m(in) ==
    IF Len(in) < 1 THEN None
    ELSE IF in[1] = 0
    THEN [some |-> TRUE, n |-> 1, offset_length |-> 6, offset_offset |-> 1, length_offset |-> 1]
    ELSE IF Len(in) < 2 THEN None
    ELSE IF in[2] = 0
    THEN [some |-> TRUE, n |-> 2, offset_length |-> 9, offset_offset |-> 65, length_offset |-> 1]
    ELSE IF Len(in) < 3 THEN None
    ELSE IF in[3] = 0
    THEN [some |-> TRUE, n |-> 3, offset_length |-> 12, offset_offset |-> 576, length_offset |-> 1]
    ELSE [some |-> TRUE, n |-> 3, offset_length |-> 20, offset_offset |-> 4673, length_offset |-> 2]

\* kcdc.rs 65-73 (the same table is kcd2.rs 110-118): the unary prefix of
\* the offset field; n is the number of prefix bits the iterator consumed
OffsetFamily(in) ==
    IF Len(in) < 1 THEN None
    ELSE IF in[1] = 0
    THEN [some |-> TRUE, n |-> 1, offset_length |-> 6, offset_offset |-> 1, length_offset |-> 1]
    ELSE IF Len(in) < 2 THEN None
    ELSE IF in[2] = 0
    THEN [some |-> TRUE, n |-> 2, offset_length |-> 9, offset_offset |-> 65, length_offset |-> 1]
    ELSE IF Len(in) < 3 THEN None
    ELSE IF in[3] = 0
    THEN [some |-> TRUE, n |-> 3, offset_length |-> 12, offset_offset |-> 577, length_offset |-> 1]
    ELSE [some |-> TRUE, n |-> 3, offset_length |-> 20, offset_offset |-> 4673, length_offset |-> 2]

\* kcdc.rs 83-96: the length field that follows the offset field
KcdcReadLengthField(offset, length_offset, in) ==
    LET max == Min(12, Len(in))
        length_length == LeadingOnes(Take(in, max))
    IN  IF length_length = max THEN None
        ELSE LET in1 == Drop(in, length_length + 1)
             IN  IF length_length = 0
                 THEN [some |-> TRUE, offset |-> offset, length |-> length_offset + 1,
                       rest |-> in1]
                 ELSE IF Len(in1) < length_length THEN None
                 ELSE [some |-> TRUE, offset |-> offset,
                       length |-> LoadLe(Take(in1, length_length))
                                    + Pow2(length_length) + length_offset,
                       rest |-> Drop(in1, length_length)]

\* kcdc.rs 57-99
KcdcReadOffsetLength(in) ==
    LET f == OffsetFamily(in)
    IN  IF ~f.some THEN None
        ELSE LET in1 == Drop(in, f.n)
             IN  IF Len(in1) < f.offset_length THEN None
                 ELSE LET offset == LoadLe(Take(in1, f.offset_length)) + f.offset_offset
                          in2 == Drop(in1, f.offset_length)
                      IN  IF IsStop(offset)
                          THEN [some |-> TRUE, offset |-> offset, length |-> 0, rest |-> in2]
                          ELSE KcdcReadLengthField(offset, f.length_offset, in2)

\* mutant of CheckedSubIsSome: an offset equal to the output length rejected
CheckedSubIsSome_m(output_len, offset) == output_len > offset

\* kcdc.rs 39-43 / kcd2.rs 54-59: output.len().checked_sub(offset) is Some
CheckedSubIsSome(output_len, offset) == output_len >= offset

\* mutant of FitsLen: a copy may end one byte past the declared length
FitsLen_m(destination, length, len) == destination + length <= len + 1

\* kcdc.rs 45-48 / kcd2.rs 61-64: ensure!(destination + length <= len)
FitsLen(destination, length, len) == destination + length <= len

\* mutant of CopyLoop: the index into the output is not advanced
CopyLoop_m(output, i, end) == output \o [k \in 1..(end - i) |-> output[i + 1]]

\* kcdc.rs 49-51 / kcd2.rs 65-67: for i in source..source + length
\* { output.push(output[i]) }, i counted from 0
RECURSIVE CopyLoop(_, _, _)
CopyLoop(output, i, end) ==
    IF i >= end THEN output
    ELSE CopyLoop(Append(output, output[i + 1]), i + 1, end)

\* the frame of a decode call before it has read anything
Frame(bytes) ==
    [arg |-> bytes, codec |-> "none", pc |-> "call", input |-> <<>>, output |-> <<>>,
     len |-> 0, tok |-> "none", offset |-> 0, length |-> 0, destination |-> 0,
     length_length |-> 0, result |-> [tag |-> "None", val |-> <<>>]]

Bail(s, tok) == [s EXCEPT !.pc = "err", !.tok = tok, !.result = [tag |-> "Err", val |-> <<>>]]

ReturnOk(s, tok) ==
    [s EXCEPT !.pc = "ok", !.tok = tok, !.result = [tag |-> "Ok", val |-> s.output]]

\* kcdc.rs 39-51 / kcd2.rs 54-67: the back-reference copy with its two checks
BackRef(s, offset, length, rest) ==
    LET t == [s EXCEPT !.offset = offset, !.length = length, !.input = rest]
    IN  IF ~CheckedSubIsSome(Len(s.output), offset) THEN Bail(t, "backref")
        ELSE LET source == Len(s.output) - offset
                 destination == Len(s.output)
             IN  IF ~FitsLen(destination, length, s.len)
                 THEN Bail([t EXCEPT !.destination = destination], "backref")
                 ELSE [t EXCEPT !.destination = destination, !.tok = "backref",
                                !.output = CopyLoop(s.output, source, source + length)]

\* kcdc.rs 8-13 / kcd2.rs 8-13: the stream header
DecodeHeader(s, bytes) ==
    IF Len(bytes) < 4 THEN Bail(s, "header")
    ELSE IF Len(bytes) < 5 THEN Bail([s EXCEPT !.len = ReadU32BE(bytes)], "header")
    ELSE [s EXCEPT !.len = ReadU32BE(bytes), !.input = ViewBits(Drop(bytes, 5)),
                   !.pc = "loop"]

\* kcdc.rs 15-52: one iteration of the loop
KcdcIter(s) ==
    IF s.input = <<>> THEN Bail(s, "eof")
    ELSE LET bit == Head(s.input)
             input == Tail(s.input)
         IN  IF bit = 0
             THEN IF ~(Len(s.output) < s.len) THEN Bail(s, "literal")
                  ELSE IF Len(input) < 8 THEN Bail(s, "eof")
                  ELSE [s EXCEPT !.input = Drop(input, 8),
                                 !.output = Append(@, LoadLe(Take(input, 8))),
                                 !.tok = "literal"]
             ELSE LET r == KcdcReadOffsetLength(input)
                  IN  IF ~r.some THEN Bail(s, "invalid")
                      ELSE IF IsStop(r.offset)
                      THEN ReturnOk([s EXCEPT !.offset = r.offset, !.length = r.length,
                                              !.input = r.rest], "stop")
                      ELSE BackRef(s, r.offset, r.length, r.rest)

(***************************************************************************)
(* kauai/kcd2.rs                                                           *)
(***************************************************************************)
\* kcd2.rs 78-98: brk is Length::Break
Kcd2ReadLength(in) ==
    LET max == Min(12, Len(in))
        length_length == LeadingOnes(Take(in, max))
    IN  IF length_length = max
        THEN [some |-> TRUE, brk |-> TRUE, length |-> 0, rest |-> in,
              length_length |-> length_length]
        ELSE LET in1 == Drop(in, length_length + 1)
             IN  IF length_length = 0
                 THEN [some |-> TRUE, brk |-> FALSE, length |-> 1, rest |-> in1,
                       length_length |-> length_length]
                 ELSE IF Len(in1) < length_length THEN None
                 ELSE [some |-> TRUE, brk |-> FALSE,
                       length |-> LoadLe(Take(in1, length_length)) + Pow2(length_length),
                       rest |-> Drop(in1, length_length),
                       length_length |-> length_length]

\* kcd2.rs 100-126
Kcd2ReadOffsetLength(in, base_length) ==
    LET f == OffsetFamily(in)
    IN  IF ~f.some THEN None
        ELSE LET in1 == Drop(in, f.n)
             IN  IF Len(in1) < f.offset_length THEN None
                 ELSE [some |-> TRUE,
                       offset |-> LoadLe(Take(in1, f.offset_length)) + f.offset_offset,
                       length |-> base_length + f.length_offset,
                       rest |-> Drop(in1, f.offset_length)]

\* kcd2.rs 37: bits.bit_domain().region() of a bit slice that starts where
\* `in` starts (the whole stream is a whole number of bytes, so the bits left
\* in the current byte are Len(in) mod 8) and is nbits long, nbits >= 8
BitDomainRegion(in, nbits) ==
    LET head_len == Len(in) % 8
        body_bits == SubSeq(in, head_len + 1, head_len + 8 * ((nbits - head_len) \div 8))
    IN  [head |-> Take(in, head_len),
         body |-> [i \in 1..(Len(body_bits) \div 8) |->
                      LoadLe(SubSeq(body_bits, 8 * i - 7, 8 * i))],
         tail |-> SubSeq(in, head_len + Len(body_bits) + 1, nbits)]

\* kcd2.rs 41-43: fold(0, |a, b| (a >> 1) + (u8::from(*b) << 7))
RECURSIVE FoldBits(_, _)
FoldBits(a, bits) ==
    IF bits = <<>> THEN a
    ELSE FoldBits((a \div 2) + Head(bits) * 128, Tail(bits))

\* mutant of LiteralRun: the assembled byte is pushed before the whole bytes
LiteralRun_m(in, length) ==
    LET r == BitDomainRegion(in, length * 8)
    IN  IF r.tail # <<>> \/ r.head # <<>>
        THEN <<FoldBits(0, r.head \o r.tail)>> \o r.body
        ELSE r.body

\* kcd2.rs 37-45: the bytes a literal run appends
LiteralRun(in, length) ==
    LET r == BitDomainRegion(in, length * 8)
    IN  IF r.tail # <<>> \/ r.head # <<>>
        THEN Append(r.body, FoldBits(0, r.head \o r.tail))
        ELSE r.body

\* kcd2.rs 15-68: one iteration of the loop
Kcd2Iter(s) ==
    LET l == Kcd2ReadLength(s.input)
    IN  IF ~l.some THEN Bail(s, "eof")
        ELSE IF l.brk THEN ReturnOk([s EXCEPT !.length_length = l.length_length], "stop")
        ELSE IF l.rest = <<>> THEN Bail(s, "eof")
        ELSE LET bit == Head(l.rest)
                 input == Tail(l.rest)
                 destination == Len(s.output)
                 t == [s EXCEPT !.length_length = l.length_length, !.length = l.length,
                                !.destination = destination]
             IN  IF bit = 0
                 THEN IF ~(destination + l.length <= s.len) THEN Bail(t, "literal")
                      ELSE IF Len(input) < l.length * 8 THEN Bail(t, "eof")
                      ELSE [t EXCEPT !.input = Drop(input, l.length * 8),
                                     !.output = @ \o LiteralRun(input, l.length),
                                     !.tok = "literal"]
                 ELSE LET r == Kcd2ReadOffsetLength(input, l.length)
                      IN  IF ~r.some THEN Bail(t, "invalid")
                          ELSE BackRef(t, r.offset, r.length, r.rest)

(***************************************************************************)
(* kauai.rs                                                                *)
(***************************************************************************)
TagKCDC == <<75, 67, 68, 67>>

TagKCD2 == <<75, 67, 68, 50>>

\* mutant of KauaiDispatch: the tag "KCD2" selects the KCDC decoder
KauaiDispatch_m(s) ==
    IF Len(s.arg) < 4 THEN Bail(s, "tag")
    ELSE LET codec == Take(s.arg, 4)
         IN  IF codec = TagKCDC \/ codec = TagKCD2
             THEN DecodeHeader([s EXCEPT !.codec = "KCDC"], Drop(s.arg, 4))
             ELSE Bail(s, "tag")

\* kauai.rs 20-29: decode reads the codec tag and calls the decoder, whose
\* first lines read the stream header
KauaiDispatch(s) ==
    IF Len(s.arg) < 4 THEN Bail(s, "tag")
    ELSE LET codec == Take(s.arg, 4)
         IN  IF codec = TagKCDC
             THEN DecodeHeader([s EXCEPT !.codec = "KCDC"], Drop(s.arg, 4))
             ELSE IF codec = TagKCD2
             THEN DecodeHeader([s EXCEPT !.codec = "KCD2"], Drop(s.arg, 4))
             ELSE Bail(s, "tag")

\* the loop of the decoder that was selected
RECURSIVE RunLoop(_)
RunLoop(s) ==
    IF s.pc # "loop" THEN s
    ELSE RunLoop(IF s.codec = "KCDC" THEN KcdcIter(s) ELSE Kcd2Iter(s))

\* kauai.rs 20-29, the whole call
KauaiDecode(bytes) == RunLoop(KauaiDispatch(Frame(bytes))).result

(***************************************************************************)
(* Streams handed to the decoders.  A stream is written token by token     *)
(* with the encodings of codkauai (the inverse of the field readers        *)
(* above), padded to whole bytes, behind a header with the declared        *)
(* length.  Ill-formed and truncated streams are among them.               *)
(***************************************************************************)
MaxTokens == 3

MaxL == 4

Bits(v, w) == [i \in 1..w |-> (v \div Pow2(i - 1)) % 2]

Ones(k) == [i \in 1..k |-> 1]

OffsetWidth(fam) == CASE fam = 0 -> 6 [] fam = 1 -> 9 [] fam = 2 -> 12 [] fam = 3 -> 20

OffsetBase(fam) == CASE fam = 0 -> 1 [] fam = 1 -> 65 [] fam = 2 -> 577 [] fam = 3 -> 4673

OffsetPrefix(fam) ==
    CASE fam = 0 -> <<0>> [] fam = 1 -> <<1, 0>> [] fam = 2 -> <<1, 1, 0>>
      [] fam = 3 -> <<1, 1, 1>>

EncOffset(fam, raw) == OffsetPrefix(fam) \o Bits(raw, OffsetWidth(fam))

EncLength(k, raw) == Ones(k) \o <<0>> \o Bits(raw, k)

StopField == EncOffset(3, Pow2(20) - 1)

KcdcLit(b) == <<0>> \o Bits(b, 8)

KcdcRef(fam, raw, k, lraw) == <<1>> \o EncOffset(fam, raw) \o EncLength(k, lraw)

KcdcStop == <<1>> \o StopField

Kcd2Lit(k, lraw, bytes) == EncLength(k, lraw) \o <<0>> \o ViewBits(bytes)

Kcd2Ref(k, lraw, fam, raw) == EncLength(k, lraw) \o <<1>> \o EncOffset(fam, raw)

Kcd2Break == Ones(12)

KcdcTokens ==
    { KcdcLit(97), KcdcLit(98),
      KcdcRef(0, 0, 0, 0),      \* offset 1, length 2
      KcdcRef(0, 1, 0, 0),      \* offset 2, length 2
      KcdcRef(0, 0, 1, 1),      \* offset 1, length 4
      KcdcRef(1, 0, 0, 0),      \* offset 65, length 2
      KcdcStop }

Kcd2Tokens ==
    { Kcd2Lit(0, 0, <<97>>), Kcd2Lit(1, 0, <<98, 99>>),
      Kcd2Ref(0, 0, 0, 0),      \* offset 1, length 2
      Kcd2Ref(0, 0, 0, 1),      \* offset 2, length 2
      Kcd2Ref(1, 0, 0, 0),      \* offset 1, length 3
      Kcd2Ref(0, 0, 1, 0),      \* offset 65, length 2
      Kcd2Break }

TokSeqs(A, n) == UNION {[1..k -> A] : k \in 0..n}

\* the bits in whole bytes, the last byte filled up with the bit pad
PackBits(bits, pad) ==
    LET n == (Len(bits) + 7) \div 8
        padded == bits \o [i \in 1..(8 * n - Len(bits)) |-> pad]
    IN  [i \in 1..n |-> LoadLe(SubSeq(padded, 8 * i - 7, 8 * i))]

Packed(tag, L, bits, pad) == tag \o <<0, 0, 0, L>> \o <<0>> \o PackBits(bits, pad)

KauaiInputs ==
    { Packed(TagKCDC, L, Flatten(ts), pad) :
        L \in 0..MaxL, ts \in TokSeqs(KcdcTokens, MaxTokens), pad \in {0, 1} }
    \cup
    { Packed(TagKCD2, L, Flatten(ts), pad) :
        L \in 0..MaxL, ts \in TokSeqs(Kcd2Tokens, MaxTokens), pad \in {0, 1} }
    \cup
    { <<>>, <<75, 67, 68>>, <<112, 117, 97, 107, 0>>, TagKCDC, TagKCD2 \o <<0, 0, 0>>,
      TagKCDC \o <<0, 0, 0, 1>>, TagKCD2 \o <<0, 0, 0, 0>> }

(***************************************************************************)
(* order.rs and chunky.rs: the byte-order loader and the chunky archive.   *)
(* A byte order O is "LE" or "BE"; offsets into a slice count from 0.      *)
(* Integers of the model are below 2^31.                                   *)
(***************************************************************************)
BYTE_ORDER_NATIVE == 1

BYTE_ORDER_SWAPPED == 256

CURRENT_VERSION == 5

MINIMUM_VERSION == 1

\* zerocopy U16<O>::get of the two bytes at offset at
RdU16(O, b, at) ==
    IF O = "LE" THEN b[at + 1] + 256 * b[at + 2] ELSE b[at + 2] + 256 * b[at + 1]

\* zerocopy U32<O>::get of the four bytes at offset at
RdU32(O, b, at) ==
    IF O = "LE"
    THEN b[at + 1] + 256 * (b[at + 2] + 256 * (b[at + 3] + 256 * b[at + 4]))
    ELSE b[at + 4] + 256 * (b[at + 3] + 256 * (b[at + 2] + 256 * b[at + 1]))

\* mem::size_of of the on-disk structures (repr(C) over byte arrays)
SizeOfPrefix == 55

SizeOfGroupOnFile == 20

SizeOfLoc == 8

SizeOfChunkRepresentationSmall == 20

SizeOfChildChunkRef == 12

SizeOfStringHeader == 3

\* b"CHN2" as the u32 whose to_le_bytes() is the text
MagicCHN2 == 67 + 256 * (72 + 256 * (78 + 256 * 50))

PACKED == 4

Err(why) == [tag |-> "Err", why |-> why]

Panic(why) == [tag |-> "Panic", why |-> why]

\* mutant of IsReadable: the minimum version compared strictly
IsReadable_m(current, backwards_compatible, current_version, minimum_version) ==
    current > minimum_version /\ backwards_compatible <= current_version

\* chunky.rs 30-32: DataVersion::is_readable
IsReadable(current, backwards_compatible, current_version, minimum_version) ==
    current >= minimum_version /\ backwards_compatible <= current_version

\* slice.get(start..end): Some iff start <= end <= len
GetRange(b, start, end) ==
    IF start <= end /\ end <= Len(b)
    THEN [some |-> TRUE, val |-> SubSeq(b, start + 1, end)]
    ELSE None

\* mutant of ChildLess: the child list ordered by chunk id before ordinal
ChildLess_m(a, b) ==
    \/ a.chunk_id.tag < b.chunk_id.tag
    \/ /\ a.chunk_id.tag = b.chunk_id.tag
       /\ \/ a.chunk_id.number < b.chunk_id.number
          \/ /\ a.chunk_id.number = b.chunk_id.number
             /\ a.child_id < b.child_id

\* chunky.rs 369-373: the comparator of the child list (ChunkId::cmp is
\* chunky.rs 128-136): child_id, then tag, then number
ChildLess(a, b) ==
    \/ a.child_id < b.child_id
    \/ /\ a.child_id = b.child_id
       /\ \/ a.chunk_id.tag < b.chunk_id.tag
          \/ /\ a.chunk_id.tag = b.chunk_id.tag
             /\ a.chunk_id.number < b.chunk_id.number

\* insert x into the sorted list s
RECURSIVE InsertSorted(_, _)
InsertSorted(s, x) ==
    IF s = <<>> THEN <<x>>
    ELSE IF ChildLess(x, Head(s)) THEN <<x>> \o s
    ELSE <<Head(s)>> \o InsertSorted(Tail(s), x)

\* chunky.rs 369-373: children.sort_unstable_by (elements that compare equal
\* are equal, so the sorted list is unique)
RECURSIVE SortChildren(_)
SortChildren(s) ==
    IF s = <<>> THEN <<>> ELSE InsertSorted(SortChildren(Tail(s)), Head(s))

\* chunky.rs 357-367: child_count child links read from the record
RECURSIVE ReadChildren(_, _, _, _)
ReadChildren(O, data, count, children) ==
    IF count = 0 THEN [ok |-> TRUE, children |-> children, rest |-> data]
    ELSE IF Len(data) < SizeOfChildChunkRef THEN [ok |-> FALSE]
    ELSE ReadChildren(O, Drop(data, SizeOfChildChunkRef), count - 1,
            Append(children,
                [chunk_id |-> [tag |-> RdU32(O, data, 0), number |-> RdU32(O, data, 4)],
                 child_id |-> RdU32(O, data, 8)]))

\* std::str::from_utf8 on the bytes of this model (ASCII, or a byte that is
\* valid nowhere in UTF-8)
Utf8Valid(bytes) == \A i \in 1..Len(bytes) : bytes[i] < 128

\* OsString::from_wide(..).into_string() on the units of this model (no
\* surrogate pairs): an unpaired surrogate is not a string
Utf16Valid(units) == \A i \in 1..Len(units) : units[i] < 55296 \/ units[i] > 57343

\* chunky.rs 375-402: the chunk name, from the bytes after the child links
ReadName(O, data) ==
    IF data = <<>> THEN [tag |-> "Ok", name |-> <<>>]
    ELSE IF Len(data) < SizeOfStringHeader THEN Err("EOF in chunk name")
    ELSE LET osk == RdU16(O, data, 0)
             len == data[3]
             rest == Drop(data, SizeOfStringHeader)
         IN  IF osk = 771
             THEN IF len > Len(rest) THEN Panic("range end index out of range")
                  ELSE IF ~Utf8Valid(Take(rest, len)) THEN Err("Utf8Error")
                  ELSE [tag |-> "Ok", name |-> Take(rest, len)]
             ELSE IF osk = 1285
             THEN LET n == Min(Len(rest) \div 2, len)
                      value == [i \in 1..n |-> RdU16(O, rest, 2 * (i - 1))]
                  IN  IF ~Utf16Valid(value) THEN Err("Invalid utf-16")
                      ELSE [tag |-> "Ok", name |-> value]
             ELSE Err("Unsupported string encoding")

\* chunky.rs 346-413: one index record: its location, fixed part, child
\* links, name, and the insertion into the map
ReadIndexEntry(O, input, entry, index) ==
    LET loc_offset == RdU32(O, entry, 0)
        loc_length == RdU32(O, entry, 4)
    IN  IF loc_offset + loc_length > Len(input) THEN Panic("range end index out of range")
        ELSE LET data == SubSeq(input, loc_offset + 1, loc_offset + loc_length)
             IN  IF Len(data) < SizeOfChunkRepresentationSmall
                 THEN Err("EOF in chunk representation")
                 ELSE LET id == [tag |-> RdU32(O, data, 0), number |-> RdU32(O, data, 4)]
                          offset == RdU32(O, data, 8)
                          grfcrp_cb == RdU32(O, data, 12)
                          child_count == RdU16(O, data, 16)
                          c == ReadChildren(O, Drop(data, SizeOfChunkRepresentationSmall),
                                            child_count, <<>>)
                      IN  IF ~c.ok THEN Err("EOF in chunk children")
                          ELSE LET name == ReadName(O, c.rest)
                               IN  IF name.tag # "Ok" THEN name
                                   ELSE [tag |-> "Ok",
                                         index |->
                                            [x \in DOMAIN index \cup {id} |->
                                                IF x = id
                                                THEN [offset |-> offset,
                                                      flags |-> grfcrp_cb % 256,
                                                      length |-> grfcrp_cb \div 256,
                                                      name |-> name.name,
                                                      children |-> SortChildren(c.children)]
                                                ELSE index[x]]]

\* chunky.rs 342-414: the loop over the location table
RECURSIVE GroupLoop(_, _, _, _, _, _)
GroupLoop(O, input, locs, i, n, index) ==
    IF i >= n THEN [tag |-> "Ok", index |-> index]
    ELSE LET r == ReadIndexEntry(O, input,
                     SubSeq(locs, SizeOfLoc * i + 1, SizeOfLoc * (i + 1)), index)
         IN  IF r.tag # "Ok" THEN r
             ELSE GroupLoop(O, input, locs, i + 1, n, r.index)

\* chunky.rs 335-417: Group::into_native
GroupIntoNative(O, full_input) ==
    LET input == Drop(full_input, SizeOfGroupOnFile)
        iloc_mac == RdU32(O, full_input, 4)
        bv_mac == RdU32(O, full_input, 8)
    IN  IF bv_mac > Len(input) THEN Panic("range start index out of range")
        ELSE LET locs == Drop(input, bv_mac)
             IN  GroupLoop(O, input, locs, 0, Min(Len(locs) \div SizeOfLoc, iloc_mac),
                           <<>>)

\* mutant of LoaderOrder: a swapped record is not read again big-endian
LoaderOrder_m(size, mark_at, full_input) ==
    IF Len(full_input) < size THEN Err("input too small")
    ELSE LET byte_order == RdU16("LE", full_input, mark_at)
         IN  IF byte_order = BYTE_ORDER_NATIVE THEN [tag |-> "Ok", O |-> "LE"]
             ELSE IF byte_order = BYTE_ORDER_SWAPPED THEN [tag |-> "Ok", O |-> "LE"]
             ELSE Err("Unexpected byte order")

\* order.rs 21-39: Loader::load up to the call of into_native, for a record
\* type with the given on-disk size and offset of the byte-order mark: the
\* byte order into_native is called with, or the error
LoaderOrder(size, mark_at, full_input) ==
    IF Len(full_input) < size THEN Err("input too small")
    ELSE LET byte_order == RdU16("LE", full_input, mark_at)
         IN  IF byte_order = BYTE_ORDER_NATIVE THEN [tag |-> "Ok", O |-> "LE"]
             ELSE IF byte_order = BYTE_ORDER_SWAPPED THEN [tag |-> "Ok", O |-> "BE"]
             ELSE Err("Unexpected byte order")

\* chunky.rs 325-333 with order.rs 21-39: Group::load
GroupLoad(full_input) ==
    LET o == LoaderOrder(SizeOfGroupOnFile, 0, full_input)
    IN  IF o.tag # "Ok" THEN o ELSE GroupIntoNative(o.O, full_input)

\* chunky.rs 296-320: ChunkyFile::into_native
ChunkyIntoNative(O, full_input) ==
    IF RdU32(O, full_input, 0) # MagicCHN2 THEN Err("Wrong magic")
    ELSE IF ~IsReadable(RdU16(O, full_input, 8), RdU16(O, full_input, 10),
                        CURRENT_VERSION, MINIMUM_VERSION)
    THEN Err("Incompatible version")
    ELSE LET index_offset == RdU32(O, full_input, 20)
             index_len == RdU32(O, full_input, 24)
             index == GetRange(full_input, index_offset, index_offset + index_len)
         IN  IF ~index.some THEN Err("Index out of bounds")
             ELSE GroupLoad(index.val)

\* chunky.rs 286-294 with order.rs 21-39: ChunkyFile::load
ChunkyLoad(full_input) ==
    LET o == LoaderOrder(SizeOfPrefix, 12, full_input)
    IN  IF o.tag # "Ok" THEN o ELSE ChunkyIntoNative(o.O, full_input)

\* core slice::binary_search_by over children[left .. right), with the
\* comparator of chunky.rs 252-256
RECURSIVE BinarySearch(_, _, _, _, _)
BinarySearch(children, child_id, tag, left, right) ==
    IF left >= right THEN None
    ELSE LET mid == left + (right - left) \div 2
             c == children[mid + 1]
             less == \/ c.child_id < child_id
                     \/ c.child_id = child_id /\ c.chunk_id.tag < tag
             greater == \/ c.child_id > child_id
                        \/ c.child_id = child_id /\ c.chunk_id.tag > tag
         IN  IF less THEN BinarySearch(children, child_id, tag, mid + 1, right)
             ELSE IF greater THEN BinarySearch(children, child_id, tag, left, mid)
             ELSE [some |-> TRUE, val |-> c.chunk_id]

\* chunky.rs 247-259: IndexEntry::get_child; tag is the byte string given
GetChild(entry, child_id, tag) ==
    IF Len(tag) # 4 THEN None
    ELSE BinarySearch(entry.children, child_id, ReadU32BE(tag), 0, Len(entry.children))

\* chunky.rs 274-283: ChunkyFile::get_chunk
GetChunk(data, entry) ==
    IF entry.offset + entry.length > Len(data) THEN Panic("range end index out of range")
    ELSE LET chunk == SubSeq(data, entry.offset + 1, entry.offset + entry.length)
         IN  IF (entry.flags \div PACKED) % 2 = 1
             THEN LET r == KauaiDecode(chunk)
                  IN  IF r.tag = "Ok" THEN [tag |-> "Ok", val |-> r.val, owned |-> TRUE]
                      ELSE Err("Unpacking")
             ELSE [tag |-> "Ok", val |-> chunk, owned |-> FALSE]

(***************************************************************************)
(* Archives handed to ChunkyFile::load.  An archive is written from a      *)
(* description src: the prefix fields, the byte order O of the prefix and  *)
(* O2 of the index group, the index records with their child links in      *)
(* on-disk order and their names, and how many bytes of the file are kept. *)
(* The chunk data between the prefix and the index is one packed chunk.    *)
(***************************************************************************)
MaxChildren == 3

WrU16(O, v) == IF O = "LE" THEN <<v % 256, v \div 256>> ELSE <<v \div 256, v % 256>>

WrU32(O, v) ==
    LET le == <<v % 256, (v \div 256) % 256, (v \div 65536) % 256, v \div 16777216>>
    IN  IF O = "LE" THEN le ELSE <<le[4], le[3], le[2], le[1]>>

Swapped(O) == IF O = "LE" THEN "BE" ELSE "LE"

TagTMPL == <<84, 77, 80, 76>>

TagMTRL == <<77, 84, 82, 76>>

TagTMAP == <<84, 77, 65, 80>>

PayloadKCDC == Packed(TagKCDC, 2, KcdcLit(97) \o KcdcLit(98) \o KcdcStop, 1)

PayloadKCD2 ==
    Packed(TagKCD2, 3, Kcd2Lit(0, 0, <<97>>) \o Kcd2Ref(0, 0, 0, 0) \o Kcd2Break, 1)

\* the chunk data of every archive: a KCDC chunk of 15 bytes at offset 55
\* and a KCD2 chunk of 13 bytes at offset 70
Payload == PayloadKCDC \o PayloadKCD2

NoName == [kind |-> "none"]

StrName(osk, len, w, units, extra) ==
    [kind |-> "str", osk |-> osk, len |-> len, w |-> w, units |-> units, extra |-> extra]

EncName(O, nm) ==
    IF nm.kind = "none" THEN <<>>
    ELSE IF nm.kind = "raw" THEN nm.bytes
    ELSE WrU16(O, nm.osk) \o <<nm.len>>
         \o Flatten([i \in 1..Len(nm.units) |->
                        IF nm.w = 1 THEN <<nm.units[i]>> ELSE WrU16(O, nm.units[i])])
         \o nm.extra

EncChild(O, c) ==
    WrU32(O, ReadU32BE(c.tag)) \o WrU32(O, c.number) \o WrU32(O, c.child_id)

EncRecord(O, r) ==
    WrU32(O, ReadU32BE(r.tag)) \o WrU32(O, r.number) \o WrU32(O, r.offset)
    \o WrU32(O, r.length * 256 + r.flags) \o WrU16(O, r.child_count) \o WrU16(O, 0)
    \o Flatten([i \in 1..Len(r.children) |-> EncChild(O, r.children[i])])
    \o EncName(O, r.name)

RECURSIVE EncLocs(_, _, _)
EncLocs(O, recs, at) ==
    IF recs = <<>> THEN <<>>
    ELSE WrU32(O, at) \o WrU32(O, Len(Head(recs)))
         \o EncLocs(O, Tail(recs), at + Len(Head(recs)))

EncGroup(O, mark, records) ==
    LET recs == [i \in 1..Len(records) |-> EncRecord(O, records[i])]
    IN  WrU16(O, mark) \o WrU16(O, 771) \o WrU32(O, Len(recs))
        \o WrU32(O, Len(Flatten(recs))) \o WrU32(O, 0) \o WrU32(O, 20)
        \o Flatten(recs) \o EncLocs(O, recs, 0)

EncArchive(d) ==
    LET group == EncGroup(d.O2, d.gmark, d.recs)
        index_offset == SizeOfPrefix + Len(Payload) + d.dio
        index_len == Len(group) + d.dil
        whole == WrU32(d.O, d.magic) \o WrU32(d.O, 0) \o WrU16(d.O, d.current)
                 \o WrU16(d.O, d.back) \o WrU16(d.O, d.mark) \o WrU16(d.O, 771)
                 \o WrU32(d.O, SizeOfPrefix + Len(Payload) + Len(group))
                 \o WrU32(d.O, index_offset) \o WrU32(d.O, index_len) \o WrU32(d.O, 0)
                 \o [i \in 1..23 |-> 0]
                 \o Payload \o group
    IN  Take(whole, Min(d.keep, Len(whole)))

\* no archive of the model is this long: keep = WholeFile truncates nothing
WholeFile == 100000

Link(tag, number, child_id) == [tag |-> tag, number |-> number, child_id |-> child_id]

Rec(number, offset, length, flags, children, name) ==
    [tag |-> TagTMPL, number |-> number, offset |-> offset, length |-> length,
     flags |-> flags, child_count |-> Len(children), children |-> children, name |-> name]

Rec0 == Rec(258, 55, 15, 6, <<Link(TagMTRL, 513, 0)>>, StrName(771, 2, 1, <<65, 66>>, <<>>))

Desc(O, O2, recs) ==
    [O |-> O, O2 |-> O2, magic |-> MagicCHN2, current |-> 5, back |-> 4, mark |-> 1,
     gmark |-> 1, dio |-> 0, dil |-> 0, keep |-> WholeFile, recs |-> recs]

\* archives with every combination of prefix faults
HeaderDescs ==
    { [Desc(O, O2, <<Rec0>>) EXCEPT !.magic = magic, !.current = v[1], !.back = v[2],
                                      !.mark = mark, !.gmark = gmark,
                                      !.dio = r[1], !.dil = r[2], !.keep = keep] :
        O \in {"LE", "BE"}, O2 \in {"LE", "BE"},
        magic \in {MagicCHN2, MagicCHN2 - 1},
        v \in {<<5, 4>>, <<1, 1>>, <<1, 5>>, <<0, 0>>, <<6, 6>>, <<7, 5>>},
        mark \in {1, 2}, gmark \in {1, 3},
        r \in {<<0, 0>>, <<0, 1>>, <<1, 0>>, <<200, 0>>, <<0, -8>>},
        keep \in {WholeFile, 54, 13} }

\* child links: materials at ordinals 0 and 1, texture maps at ordinal 1
Links ==
    { Link(TagMTRL, number, child_id) : number \in {1, 258}, child_id \in {0, 1} }
    \cup { Link(TagTMAP, number, 1) : number \in {1, 258} }

\* archives whose one record has any list of up to MaxChildren child links
ChildDescs ==
    { Desc(O, O, <<Rec(258, 55, 15, 6, cs, NoName)>>) :
        O \in {"LE", "BE"}, cs \in TokSeqs(Links, MaxChildren) }

Names ==
    { NoName,
      StrName(771, 2, 1, <<65, 66>>, <<>>),
      StrName(771, 1, 1, <<65>>, <<66>>),
      StrName(771, 3, 1, <<65, 66>>, <<>>),
      StrName(771, 1, 1, <<255>>, <<>>),
      StrName(1285, 2, 2, <<321, 66>>, <<>>),
      StrName(1285, 3, 2, <<321, 66>>, <<>>),
      StrName(1285, 2, 2, <<321>>, <<66>>),
      StrName(1285, 1, 2, <<55296>>, <<>>),
      StrName(257, 1, 1, <<65>>, <<>>),
      StrName(771, 0, 1, <<>>, <<>>),
      [kind |-> "raw", bytes |-> <<3, 3>>] }

\* (offset, length, flags) of index records; the archive has more than 100
\* and fewer than 250 bytes
Ranges ==
    { <<55, 15, 4>>, <<55, 15, 0>>, <<55, 3, 4>>, <<59, 6, 4>>, <<55, 0, 0>>,
      <<70, 13, 4>>, <<70, 13, 0>>,
      <<100, 250, 0>>, <<250, 1, 4>>, <<250, 0, 0>> }

\* archives of one or two records with any name and any data range
RecordDescs ==
    { Desc(O, O, <<Rec(258, r[1], r[2], r[3], <<Link(TagTMAP, 513, 2)>>, nm)>> \o more) :
        O \in {"LE", "BE"}, r \in Ranges, nm \in Names,
        more \in {<<>>, <<Rec(1, 55, 4, 0, <<>>, NoName)>>} }
    \cup
    { [Desc(O, O, <<>>) EXCEPT !.dil = dil] : O \in {"LE", "BE"}, dil \in {0, -1, -20} }
    \cup
    { Desc(O, O, <<[Rec(258, 55, 15, 4, <<Link(TagTMAP, 513, 2)>>, NoName)
                        EXCEPT !.child_count = 2]>>) : O \in {"LE", "BE"} }

DecIdle == [Frame(<<>>) EXCEPT !.pc = "idle"]

RolIdle == [pc |-> "idle", input |-> <<>>, result |-> None]

ChunkyIdle == [src |-> Desc("LE", "LE", <<>>), data |-> <<>>, pc |-> "idle",
               file |-> [tag |-> "None"]]

CallIdle == [op |-> "none"]

SqIdle == [pc |-> "idle"]

TexIdle == [pc |-> "idle"]

BlIdle == [pc |-> "idle"]

LoadIdle == [pc |-> "idle"]

\* none of the chunk loaders and no export is running
LoadersIdle == lst = LoadIdle /\ tmap = LoadIdle /\ modl = LoadIdle /\ gltf = LoadIdle

\* nothing of the atlas code is running
AtlasIdle == sq = SqIdle /\ tex = TexIdle /\ bl = BlIdle

\* nothing of the decoders and the archive is running
ArchiveIdle == dec = DecIdle /\ rol = RolIdle /\ chunky = ChunkyIdle /\ call = CallIdle

QueryTags == {TagMTRL, TagTMAP, TagTMPL, <<77, 84, 82>>, TagMTRL \o <<0>>}

InitChunky ==
    /\ LoadersIdle
    /\ AtlasIdle
    /\ chunky \in { [src |-> d, data |-> EncArchive(d), pc |-> "closed",
                     file |-> [tag |-> "None"]] :
                    d \in HeaderDescs \cup ChildDescs \cup RecordDescs }
    /\ call = CallIdle
    /\ dec = DecIdle
    /\ rol = RolIdle

\* main.rs: ChunkyFile::load(&mmap)
Open ==
    /\ chunky.pc = "closed"
    /\ LET r == ChunkyLoad(chunky.data)
       IN  chunky' = [chunky EXCEPT !.pc = IF r.tag = "Ok" THEN "open" ELSE "failed",
                                    !.file = r]
    /\ UNCHANGED <<call, dec, rol, atlasVars, loadVars>>

\* entry.get_child(child_id, tag) on an entry of the index
GetChildCall ==
    /\ chunky.pc = "open"
    /\ \E id \in DOMAIN chunky.file.index, child_id \in 0..2, tag \in QueryTags :
         call' = [op |-> "get_child", id |-> id, child_id |-> child_id, tag |-> tag,
                  result |-> GetChild(chunky.file.index[id], child_id, tag)]
    /\ UNCHANGED <<chunky, dec, rol, atlasVars, loadVars>>

\* file.get_chunk(entry) on an entry of the index
GetChunkCall ==
    /\ chunky.pc = "open"
    /\ \E id \in DOMAIN chunky.file.index :
         call' = [op |-> "get_chunk", id |-> id,
                  result |-> GetChunk(chunky.data, chunky.file.index[id])]
    /\ UNCHANGED <<chunky, dec, rol, atlasVars, loadVars>>

NextChunky == Open \/ GetChildCall \/ GetChunkCall

SpecChunky == InitChunky /\ [][NextChunky]_vars

(***************************************************************************)
(* The decoders, one loop iteration per step                               *)
(***************************************************************************)
InitKauai ==
    /\ LoadersIdle
    /\ AtlasIdle
    /\ dec \in {Frame(b) : b \in KauaiInputs}
    /\ rol = RolIdle
    /\ chunky = ChunkyIdle
    /\ call = CallIdle

KauaiCall ==
    /\ dec.pc = "call"
    /\ dec' = KauaiDispatch(dec)
    /\ UNCHANGED <<rol, chunky, call, atlasVars, loadVars>>

KcdcStep ==
    /\ dec.pc = "loop"
    /\ dec.codec = "KCDC"
    /\ dec' = KcdcIter(dec)
    /\ UNCHANGED <<rol, chunky, call, atlasVars, loadVars>>

Kcd2Step ==
    /\ dec.pc = "loop"
    /\ dec.codec = "KCD2"
    /\ dec' = Kcd2Iter(dec)
    /\ UNCHANGED <<rol, chunky, call, atlasVars, loadVars>>

NextKauai == KauaiCall \/ KcdcStep \/ Kcd2Step

SpecKauai == InitKauai /\ [][NextKauai]_vars

(***************************************************************************)
(* kcdc::read_offset_length as a function of the bit slice it is given     *)
(***************************************************************************)
RawSamples(w) == {0, 1, Pow2(w) - 2, Pow2(w) - 1}

LengthRawSamples(k) == {0, Pow2(k) \div 2, Pow2(k) - 1}

RestSamples == {<<>>, <<0>>, <<1>>, <<1, 0>>}

RolInputs ==
    UNION { { EncOffset(fam, raw) \o EncLength(k, lraw) \o rest :
                raw \in RawSamples(OffsetWidth(fam)), lraw \in LengthRawSamples(k),
                rest \in RestSamples } : fam \in 0..3, k \in 0..11 }
    \cup
    { EncOffset(fam, 0) \o Ones(12) \o rest : fam \in 0..3, rest \in RestSamples }
    \cup
    { Take(EncOffset(fam, 1) \o EncLength(3, 5), Min(n, OffsetWidth(fam) + 7)) :
        fam \in 0..3, n \in 0..30 }

InitRol ==
    /\ LoadersIdle
    /\ AtlasIdle
    /\ rol \in {[pc |-> "call", input |-> b, result |-> None] : b \in RolInputs}
    /\ dec = DecIdle
    /\ chunky = ChunkyIdle
    /\ call = CallIdle

RolCall ==
    /\ rol.pc = "call"
    /\ rol' = [rol EXCEPT !.pc = "done", !.result = KcdcReadOffsetLength(rol.input)]
    /\ UNCHANGED <<dec, chunky, call, atlasVars, loadVars>>

NextRol == RolCall

SpecRol == InitRol /\ [][NextRol]_vars

(***************************************************************************)
(* Properties of the decoders                                              *)
(***************************************************************************)
IsPrefix(p, s) == Len(p) <= Len(s) /\ Take(s, Len(p)) = p

\* the bit stream of a decode call: what follows the codec tag, the declared
\* length and the flag byte
StreamBits(bytes) == IF Len(bytes) < 9 THEN <<>> ELSE ViewBits(Drop(bytes, 9))

\* C1: whenever a decoder returns success for a stream whose header declares
\* length L, the returned buffer has exactly L bytes.
C1_ExactLength == dec.pc = "ok" => Len(dec.result.val) = dec.len

\* C2: KCD2 decoding ends successfully only when a length field was read whose
\* leading-ones count reached 12 (an exhausted stream is an error).
C2_BreakOnlyOnTwelveOnes ==
    (dec.codec = "KCD2" /\ dec.pc = "ok") => dec.length_length = 12

\* C3: in both decoders a back-reference is rejected (decode returns an error
\* and no output) exactly when its offset is greater than the number of bytes
\* emitted so far or its length would make the output longer than L; so an
\* offset equal to the current output length is accepted.
C3_BackRefChecks ==
    dec.tok = "backref" =>
        LET emitted == IF dec.pc = "err" THEN Len(dec.output) ELSE dec.destination
        IN  /\ dec.pc = "err" <=>
                (dec.offset > emitted \/ emitted + dec.length > dec.len)
            /\ dec.pc = "err" => dec.result = [tag |-> "Err", val |-> <<>>]
            /\ dec.pc # "err" =>
                /\ dec.pc = "loop"
                /\ Len(dec.output) = emitted + dec.length

\* C3 witness: a back-reference whose offset equals the number of bytes emitted
\* was accepted and copied.
C3_Witness ==
    /\ dec.tok = "backref"
    /\ dec.pc = "loop"
    /\ dec.destination > 0
    /\ dec.offset = dec.destination
    /\ Len(dec.output) = dec.destination + dec.length

\* what the claim C4 says read_offset_length returns for an offset field of
\* family fam (prefix 0, 10, 110, 111) with value raw, followed by a length
\* field with k leading ones and value lraw
C4Expected(fam, raw, k, lraw, in) ==
    LET length_offset == IF fam = 3 THEN 2 ELSE 1
    IN  [some |-> TRUE,
         offset |-> raw + OffsetBase(fam),
         length |-> IF k = 0 THEN length_offset + 1
                    ELSE lraw + Pow2(k) + length_offset,
         rest |-> Drop(in, Len(EncOffset(fam, raw)) + 2 * k + 1)]

\* C4 as stated: for every bit stream that starts with an offset field
\* followed by a length field with k < 12 leading ones, read_offset_length
\* returns the offset and the length of the two fields and consumes exactly
\* their bits.
C4_Original ==
    rol.pc = "done" =>
        \A fam \in 0..3, k \in 0..11 :
            \A raw \in RawSamples(OffsetWidth(fam)), lraw \in LengthRawSamples(k) :
                IsPrefix(EncOffset(fam, raw) \o EncLength(k, lraw), rol.input)
                    => rol.result = C4Expected(fam, raw, k, lraw, rol.input)

\* C4 amended: the same, for every offset field but the 20-bit field of all
\* ones; for that field read_offset_length returns (OFFSET_STOP, 0) and
\* consumes the offset field only, the length field is left unread.
C4_Amended ==
    rol.pc = "done" =>
        \A fam \in 0..3, k \in 0..11 :
            \A raw \in RawSamples(OffsetWidth(fam)), lraw \in LengthRawSamples(k) :
                IsPrefix(EncOffset(fam, raw) \o EncLength(k, lraw), rol.input)
                    => IF EncOffset(fam, raw) = StopField
                       THEN rol.result =
                                [some |-> TRUE, offset |-> 1053248, length |-> 0,
                                 rest |-> Drop(rol.input, Len(StopField))]
                       ELSE rol.result = C4Expected(fam, raw, k, lraw, rol.input)

\* C4 witness: a 9-bit offset field and a length field with 11 leading ones
\* were read, and bits that follow them were left.
C4_Witness ==
    /\ rol.pc = "done"
    /\ rol.result.some
    /\ rol.result.offset = 576
    /\ rol.result.length = 2047 + 2048 + 1
    /\ rol.result.rest = <<1, 0>>

\* C5: a KCDC stream of n literal tokens followed by the stop token decodes,
\* with header length n, to exactly those n bytes; the stop field yields
\* offset 0x101240 with length 0, no length field is read for it, and decoding
\* stops there whatever bits follow.
C5_LiteralsThenStop ==
    \A n \in 0..MaxTokens :
        \A lits \in [1..n -> {97, 98}] :
            LET enc == Flatten([i \in 1..n |-> KcdcLit(lits[i])]) \o KcdcStop
            IN  ( /\ dec.codec = "KCDC"
                  /\ dec.len = n
                  /\ IsPrefix(enc, StreamBits(dec.arg)) )
                =>  /\ dec.pc \in {"loop", "ok"}
                    /\ dec.pc = "loop" => IsPrefix(dec.output, lits)
                    /\ dec.pc = "ok" =>
                        /\ dec.result = [tag |-> "Ok", val |-> lits]
                        /\ dec.offset = 1053248
                        /\ dec.length = 0
                        /\ dec.input = Drop(StreamBits(dec.arg), Len(enc))

\* C5 witness: one literal and the stop token were decoded to the one byte and
\* a further token of the stream was left unread.
C5_Witness ==
    /\ dec.codec = "KCDC"
    /\ dec.pc = "ok"
    /\ dec.len = 1
    /\ dec.result = [tag |-> "Ok", val |-> <<98>>]
    /\ IsPrefix(KcdcLit(98) \o KcdcStop \o KcdcLit(97), StreamBits(dec.arg))
    /\ Len(dec.input) >= 9

(***************************************************************************)
(* Properties of the loader and the chunky archive                         *)
(***************************************************************************)
Opened == chunky.pc \in {"open", "failed"}

\* the same archive written in the other byte order
SwappedArchive(d) == EncArchive([d EXCEPT !.O = Swapped(d.O), !.O2 = Swapped(d.O2)])

\* C6: loading a record written little-endian and loading the byte-swapped
\* layout of the same record give identical results: here the archive
\* (prefix and index group) as loaded, against the load of the same archive
\* written in the other byte order.
C6_EndianSymmetry == Opened => chunky.file = ChunkyLoad(SwappedArchive(chunky.src))

\* C6 witness: an archive written big-endian was opened, with a record that
\* has a child link and a name of 16-bit units.
C6_Witness ==
    /\ chunky.pc = "open"
    /\ chunky.src.O = "BE"
    /\ chunky.src.O2 = "BE"
    /\ \E id \in DOMAIN chunky.file.index :
         /\ id.number = 258
         /\ chunky.file.index[id].name = <<321, 66>>
         /\ chunky.file.index[id].children # <<>>

\* the faults of C7, read off the file (the fields in the byte order it was
\* written in)
C7Fault ==
    LET n == Len(chunky.data)
        O == chunky.src.O
    IN  \/ n < 55
        \/ RdU16("LE", chunky.data, 12) \notin {1, 256}
        \/ RdU32(O, chunky.data, 0) # MagicCHN2
        \/ RdU16(O, chunky.data, 8) < 1
        \/ RdU16(O, chunky.data, 10) > 5
        \/ RdU32(O, chunky.data, 20) + RdU32(O, chunky.data, 24) > n

\* C7: opening an archive returns an error when the input is shorter than the
\* prefix, the byte-order mark is neither 0x0001 nor 0x0100, the magic is not
\* "CHN2", the current version is below 1 or the backwards-compatible version
\* above 5, or the index region is not inside the input; in every other case
\* the magic, version and index-region checks pass.
C7_OpenErrors ==
    Opened =>
        /\ C7Fault => chunky.file.tag = "Err"
        /\ (~C7Fault /\ chunky.file.tag = "Err") =>
              chunky.file.why \notin {"Wrong magic", "Incompatible version",
                                      "Index out of bounds"}

\* C7 witness: an archive that is well formed except for a current version
\* of 0 was rejected.
C7_Witness ==
    /\ chunky.pc = "failed"
    /\ chunky.file = Err("Incompatible version")
    /\ chunky.src.current = 0
    /\ chunky.src.back = 0
    /\ chunky.src.dio = 0
    /\ chunky.src.dil = 0
    /\ chunky.src.gmark = 1

\* C8: for every archive that opens successfully, every index entry has
\* offset + length <= archive size, and get_chunk on an indexed entry never
\* addresses bytes outside the archive.
C8_EntriesInBounds ==
    /\ chunky.pc = "open" =>
          \A id \in DOMAIN chunky.file.index :
              chunky.file.index[id].offset + chunky.file.index[id].length
                  <= Len(chunky.data)
    /\ call.op = "get_chunk" => call.result.tag # "Panic"

\* the record of the archive description with the chunk id id
SrcRecord(id) ==
    CHOOSE i \in 1..Len(chunky.src.recs) :
        /\ ReadU32BE(chunky.src.recs[i].tag) = id.tag
        /\ chunky.src.recs[i].number = id.number

\* C9: whatever the on-disk order of an entry's child links, get_child(ordinal,
\* tag) returns a chunk id iff the entry has a child link with that ordinal
\* whose tag equals tag, the id returned is the chunk id of such a link, and a
\* tag that is not 4 bytes long is a miss.
C9_GetChild ==
    call.op = "get_child" =>
        LET links == chunky.src.recs[SrcRecord(call.id)].children
            matches == { i \in 1..Len(links) :
                            /\ links[i].child_id = call.child_id
                            /\ links[i].tag = call.tag }
        IN  /\ call.result.some <=> matches # {}
            /\ call.result.some =>
                  \E i \in matches :
                      call.result.val = [tag |-> ReadU32BE(links[i].tag),
                                         number |-> links[i].number]

\* C9 witness: a hit on an entry whose links are not in sorted order on disk
\* and of which two have the ordinal and the tag asked for.
C9_Witness ==
    /\ call.op = "get_child"
    /\ call.result.some
    /\ call.child_id = 1
    /\ call.tag = TagTMAP
    /\ chunky.src.recs[1].children =
          <<Link(TagTMAP, 258, 1), Link(TagMTRL, 1, 1), Link(TagTMAP, 1, 1)>>

\* the name nm declares more than the bytes that follow its header
NameTooLong(nm) ==
    /\ nm.kind = "str"
    /\ nm.len * nm.w > Len(nm.units) * nm.w + Len(nm.extra)

\* C10: while the index is built, a chunk name whose declared length exceeds
\* the bytes remaining in its record, or whose osk is neither 0x0303 nor
\* 0x0505, makes the open fail with an error value; a record with no bytes
\* after its child links gets the empty name.
C10_NameErrors ==
    Opened =>
        \A i \in 1..Len(chunky.src.recs) :
            LET nm == chunky.src.recs[i].name
            IN  /\ (nm.kind = "str" /\ (NameTooLong(nm) \/ nm.osk \notin {771, 1285}))
                      => chunky.file.tag = "Err"
                /\ (nm.kind = "none" /\ chunky.file.tag = "Ok") =>
                      \A id \in DOMAIN chunky.file.index :
                          (id.number = chunky.src.recs[i].number)
                              => chunky.file.index[id].name = <<>>

\* the bytes get_chunk is asked for, when they lie inside the archive
ChunkBytes(entry) == SubSeq(chunky.data, entry.offset + 1, entry.offset + entry.length)

\* what the decoder named codec makes of a payload behind its tag
DecoderOutput(codec, payload) ==
    RunLoop(DecodeHeader([Frame(payload) EXCEPT !.codec = codec], Drop(payload, 4))).result

\* C11: for an entry whose range lies inside the archive, get_chunk returns
\* the archive bytes [offset, offset + length) unchanged when PACKED is clear;
\* when PACKED is set it returns the output of the decoder selected by the
\* first four bytes of the payload ("KCDC" or "KCD2"), and fails with an
\* error when the payload is shorter than four bytes or starts with another
\* tag (or when the selected decoder fails).
C11_GetChunk ==
    (call.op = "get_chunk" /\ call.result.tag # "Panic") =>
        LET entry == chunky.file.index[call.id]
            chunk == ChunkBytes(entry)
            packed == (entry.flags \div 4) % 2 = 1
            codec == IF Len(chunk) < 4 THEN "none"
                     ELSE IF Take(chunk, 4) = <<75, 67, 68, 67>> THEN "KCDC"
                     ELSE IF Take(chunk, 4) = <<75, 67, 68, 50>> THEN "KCD2"
                     ELSE "none"
        IN  /\ ~packed => call.result = [tag |-> "Ok", val |-> chunk, owned |-> FALSE]
            /\ (packed /\ codec = "none") => call.result.tag = "Err"
            /\ (packed /\ codec # "none") =>
                  LET r == DecoderOutput(codec, chunk)
                  IN  IF r.tag = "Ok"
                      THEN call.result = [tag |-> "Ok", val |-> r.val, owned |-> TRUE]
                      ELSE call.result.tag = "Err"

\* C11 witness: a packed KCD2 chunk was unpacked to its three bytes.
C11_Witness ==
    /\ call.op = "get_chunk"
    /\ chunky.file.index[call.id].offset = 70
    /\ chunky.file.index[call.id].flags = 4
    /\ call.result = [tag |-> "Ok", val |-> <<97, 97, 97>>, owned |-> TRUE]

(***************************************************************************)
(* Properties of single decoder tokens                                     *)
(***************************************************************************)
\* a step of the decoder loop that accepted a token of kind tok
TokenStep(tok) == dec.pc = "loop" /\ dec'.pc = "loop" /\ dec' # dec /\ dec'.tok = tok

\* C18: an accepted back-reference with offset o and length n, applied when d
\* bytes have been emitted, appends exactly n bytes such that for every i in
\* [0, n) the byte at position d + i equals the byte at position d + i - o of
\* the output after the copy (also when n > o), and leaves the first d bytes
\* unchanged.
C18_BackRefCopy ==
    [][TokenStep("backref") =>
          LET d == Len(dec.output)
              o == dec'.offset
              n == dec'.length
          IN  /\ Len(dec'.output) = d + n
              /\ Take(dec'.output, d) = dec.output
              /\ \A i \in 0..(n - 1) :
                    dec'.output[d + i + 1] = dec'.output[d + i - o + 1]]_vars

\* C18 witness: a back-reference longer than its offset was copied, so that
\* the copy repeats bytes it wrote itself.
C18_Witness ==
    /\ dec.pc = "loop"
    /\ dec.tok = "backref"
    /\ dec.offset = 1
    /\ dec.length = 3
    /\ dec.output = <<97, 97, 97, 97>>

\* C19: a KCD2 literal run of length n that fits within L consumes exactly
\* 8 n bits of the stream (behind its length field and flag bit) and appends
\* exactly n bytes: on a byte boundary the n stream bytes as they are,
\* otherwise the n - 1 whole bytes inside the run and then one byte whose low
\* bits are the leading partial-byte bits and whose high bits are the
\* trailing partial-byte bits.
C19_LiteralRun ==
    [][(TokenStep("literal") /\ dec.codec = "KCD2") =>
          LET n == dec'.length
              k == dec'.length_length
              used == Len(dec.input) - Len(dec'.input)
              run == SubSeq(dec.input, used - 8 * n + 1, used)
              h == Len(dec'.input) % 8
              new == Drop(dec'.output, Len(dec.output))
          IN  /\ used = (2 * k + 1) + 1 + 8 * n
              /\ Take(dec'.output, Len(dec.output)) = dec.output
              /\ Len(new) = n
              /\ h = 0 =>
                    \A i \in 1..n : new[i] = LoadLe(SubSeq(run, 8 * i - 7, 8 * i))
              /\ h # 0 =>
                    /\ \A i \in 1..(n - 1) :
                          new[i] = LoadLe(SubSeq(run, h + 8 * i - 7, h + 8 * i))
                    /\ new[n] = LoadLe(Take(run, h) \o Drop(run, 8 * n - (8 - h)))]_vars

\* C19 witness: the two-byte run 98, 99 that starts four bits into a byte
\* was appended as the whole byte inside it and the byte assembled from its
\* two ends.
C19_Witness ==
    /\ dec.pc = "loop"
    /\ dec.codec = "KCD2"
    /\ dec.tok = "literal"
    /\ dec.length = 2
    /\ dec.output = <<54, 98>>

(***************************************************************************)
(* main.rs: the texture atlas.  pack_to_minimal_square searches the canvas *)
(* edge length with rectangle_pack::pack_rects.  The library is not part   *)
(* of the repository; PackRects stands for it by its contract: the answer  *)
(* depends on the rectangles and the bin only, a layout places every       *)
(* rectangle with its own width and height inside the bin without          *)
(* overlap, and rectangles that pack into a bin pack into a larger one.    *)
(* The layout chosen here puts the rectangles side by side in push order.  *)
(***************************************************************************)
\* main.rs 457
SIZES == <<8, 16, 32, 64, 128, 256, 512, 1024, 2048, 4096>>

\* the x coordinate of rectangle k: the widths of the rectangles before it
RECURSIVE RowX(_, _)
RowX(rects, k) == IF k <= 1 THEN 0 ELSE RowX(rects, k - 1) + rects[k - 1].w

\* main.rs 465-472: pack_rects into one bin of size x size x 1; rects is the
\* list of push_rect calls [id, w, h]
PackRects(rects, size) ==
    IF \/ \E k \in 1..Len(rects) : rects[k].h > size
       \/ RowX(rects, Len(rects) + 1) > size
    THEN [tag |-> "NotEnoughBinSpace"]
    ELSE [tag |-> "Ok",
          packed_locations |->
              [id \in {rects[k].id : k \in 1..Len(rects)} |->
                  LET k == CHOOSE k \in 1..Len(rects) : rects[k].id = id
                  IN  [x |-> RowX(rects, k), y |-> 0,
                       width |-> rects[k].w, height |-> rects[k].h]]]

\* main.rs 458-459: the frame of pack_to_minimal_square before the loop
SquareFrame(rects_to_place) ==
    [pc |-> "loop", rects_to_place |-> rects_to_place, possible_sizes |-> SIZES,
     packed |-> [some |-> FALSE], result |-> [tag |-> "None"]]

\* mutant of SquareIter: a layout once found is not replaced by a smaller one
SquareIter_m(f) ==
    LET n == Len(f.possible_sizes)
        left == Take(f.possible_sizes, n \div 2)
        right == Drop(f.possible_sizes, n \div 2)
    IN  IF right = <<>>
        THEN IF f.packed.some
             THEN [f EXCEPT !.pc = "ok",
                            !.result = [tag |-> "Ok", size |-> f.packed.size,
                                        layout |-> f.packed.layout]]
             ELSE [f EXCEPT !.pc = "err", !.result = Err("Unable to pack into 4k?")]
        ELSE LET middle == Head(right)
                 r == PackRects(f.rects_to_place, middle)
             IN  IF r.tag = "Ok"
                 THEN [f EXCEPT !.packed = IF f.packed.some THEN f.packed
                                           ELSE [some |-> TRUE, size |-> middle,
                                                 layout |-> r.packed_locations],
                                !.possible_sizes = left]
                 ELSE [f EXCEPT !.possible_sizes = Tail(right)]

\* main.rs 460-485: one iteration of the loop, and the return after it
SquareIter(f) ==
    LET n == Len(f.possible_sizes)
        left == Take(f.possible_sizes, n \div 2)
        right == Drop(f.possible_sizes, n \div 2)
    IN  IF right = <<>>
        THEN IF f.packed.some
             THEN [f EXCEPT !.pc = "ok",
                            !.result = [tag |-> "Ok", size |-> f.packed.size,
                                        layout |-> f.packed.layout]]
             ELSE [f EXCEPT !.pc = "err", !.result = Err("Unable to pack into 4k?")]
        ELSE LET middle == Head(right)
                 r == PackRects(f.rects_to_place, middle)
             IN  IF r.tag = "Ok"
                 THEN [f EXCEPT !.packed = [some |-> TRUE, size |-> middle,
                                            layout |-> r.packed_locations],
                                !.possible_sizes = left]
                 ELSE [f EXCEPT !.possible_sizes = Tail(right)]

RECURSIVE SquareLoop(_)
SquareLoop(f) == IF f.pc # "loop" THEN f ELSE SquareLoop(SquareIter(f))

\* main.rs 454-486
PackToMinimalSquare(rects_to_place) == SquareLoop(SquareFrame(rects_to_place)).result

(***************************************************************************)
(* main.rs: pack_textures.  An f64 is a fraction [n, d] with d a power of  *)
(* two: for the dyadic inputs of this model every f64 operation of the     *)
(* code is exact.  A point is <<x, y>>.  An Option is None or Some(v).     *)
(***************************************************************************)
Some(v) == [some |-> TRUE, val |-> v]

RECURSIVE Reduce(_, _)
Reduce(n, d) ==
    IF d > 1 /\ n % 2 = 0 THEN Reduce(n \div 2, d \div 2) ELSE [n |-> n, d |-> d]

F(n, d) == Reduce(n, d)

FAdd(a, b) == Reduce(a.n * b.d + b.n * a.d, a.d * b.d)

FSub(a, b) == Reduce(a.n * b.d - b.n * a.d, a.d * b.d)

FMul(a, b) == Reduce(a.n * b.n, a.d * b.d)

FLess(a, b) == a.n * b.d < b.n * a.d

FMin(a, b) == IF FLess(b, a) THEN b ELSE a

FMax(a, b) == IF FLess(a, b) THEN b ELSE a

\* f64::floor and f64::ceil, as integers
Floor(a) == a.n \div a.d

Ceil(a) == -((-a.n) \div a.d)

\* `as u32` of a float that is an integer: negative values saturate to 0
AsU32(i) == IF i < 0 THEN 0 ELSE i

\* txxf.rs 24-31: TextureTransform::default
DefaultTransform == [min |-> <<F(0, 1), F(0, 1)>>, max |-> <<F(1, 1), F(1, 1)>>]

\* Option<TextureTransform>::unwrap_or_default
UnwrapOrDefault(o) == IF o.some THEN o.val ELSE DefaultTransform

\* txxf.rs 15-21: TextureTransform::transform_point
TransformPoint(txxf, point) ==
    [c \in 1..2 |-> FAdd(FMul(point[c], FSub(txxf.max[c], txxf.min[c])), txxf.min[c])]

\* transform_point(p).coords.component_mul(&point![width, height].coords)
Pixels(txxf, point, texture_map) ==
    LET q == TransformPoint(txxf, point)
    IN  <<FMul(q[1], F(texture_map.width, 1)), FMul(q[2], F(texture_map.height, 1))>>

\* main.rs 282-302: Bounds | Bounds
BoundsOr(a, b) ==
    [min |-> <<IF b.min[1] < a.min[1] THEN b.min[1] ELSE a.min[1],
               IF b.min[2] < a.min[2] THEN b.min[2] ELSE a.min[2]>>,
     max |-> <<IF b.max[1] > a.max[1] THEN b.max[1] ELSE a.max[1],
               IF b.max[2] > a.max[2] THEN b.max[2] ELSE a.max[2]>>]

\* main.rs 309-319: the extents of the vertex maps, vertices not empty
RECURSIVE VertexExtents(_, _, _)
VertexExtents(vertices, k, acc) ==
    IF k > Len(vertices) THEN acc
    ELSE VertexExtents(vertices, k + 1,
            [min |-> <<FMin(acc.min[1], vertices[k][1]), FMin(acc.min[2], vertices[k][2])>>,
             max |-> <<FMax(acc.max[1], vertices[k][1]), FMax(acc.max[2], vertices[k][2])>>])

\* main.rs 304-350: find_pixel_extents
FindPixelExtents(vertices, txxf, texture_map) ==
    LET local_vertex_extents ==
            VertexExtents(vertices, 2, [min |-> vertices[1], max |-> vertices[1]])
        lo == Pixels(txxf, local_vertex_extents.min, texture_map)
        hi == Pixels(txxf, local_vertex_extents.max, texture_map)
    IN  [min |-> <<AsU32(Floor(lo[1])), AsU32(Floor(lo[2]))>>,
         max |-> <<AsU32(Ceil(hi[1])), AsU32(Ceil(hi[2]))>>]

\* main.rs 268-279: Bounds::width and Bounds::height (max >= min for the
\* transforms of this model, whose max is not below their min)
Width(b) == b.max[1] - b.min[1]

Height(b) == b.max[2] - b.min[2]

\* main.rs 358-363: the parts of a set, in order: the model ids of the
\* parts i of cells[0] with groups[i] == set (sets and groups count from 0)
SetParts(t, set) ==
    LET idx == { i \in 1..Len(t.cells0) : t.groups[i] = set }
        RECURSIVE Pick(_)
        Pick(i) == IF i > Len(t.cells0) THEN <<>>
                   ELSE IF i \in idx THEN <<t.cells0[i]>> \o Pick(i + 1)
                   ELSE Pick(i + 1)
    IN  Pick(1)

(***************************************************************************)
(* The frame of one template worker.  t is what main loaded and never      *)
(* changes (name, costumes.part_sets, body_part_sets.groups, the model ids *)
(* of action_cells.cells[0].parts, the models and materials as loaded);    *)
(* models and materials are the parts of TemplateData that pack_textures   *)
(* rewrites; the rest are the locals of pack_textures for the current set, *)
(* the files written so far, and in remapped the model ids whose vertices  *)
(* the remap loop (main.rs 663-688) has rewritten, one entry per time.     *)
(***************************************************************************)
\* a function with no key: HashMap::new()
EmptyMap == [x \in {} |-> 0]

TexFrame(t, models, materials) ==
    [pc |-> "load", t |-> t, models |-> models, materials |-> materials,
     set |-> 0, valid_costumes |-> <<>>, first_custom_sizes |-> <<>>,
     texture_order |-> <<>>, texture_extents |-> EmptyMap, size |-> 0,
     layout |-> EmptyMap, k |-> 1, diagnostics |-> <<>>, remapped |-> <<>>,
     files |-> <<>>, images |-> <<>>, result |-> [tag |-> "None"]]

TexFail(f, r) == [f EXCEPT !.pc = IF r.tag = "Panic" THEN "panic" ELSE "err", !.result = r]

SetCostumes(f) == f.t.part_sets[f.set + 1]

\* main.rs 400-409 / 554-562: texture_extents.entry(id), insert or union
EntryOr(texture_extents, id, bounds) ==
    IF id \in DOMAIN texture_extents
    THEN [texture_extents EXCEPT ![id] = BoundsOr(@, bounds)]
    ELSE (id :> bounds) @@ texture_extents

\* main.rs 381-397 / 433-443: ceil(transform((1, 1)) * (width, height)) of a
\* material, as the f64 point and as u32
SizeF(material, texture_map) ==
    Pixels(UnwrapOrDefault(material.texture_transform), <<F(1, 1), F(1, 1)>>, texture_map)

SizeU32(material, texture_map) ==
    LET size == SizeF(material, texture_map)
    IN  <<AsU32(Ceil(size[1])), AsU32(Ceil(size[2]))>>

\* main.rs 358-410: the loop over the parts of the set; acc holds
\* first_custom_sizes, texture_order, texture_extents
RECURSIVE MeasureLoop(_, _, _, _)
MeasureLoop(f, parts, part, acc) ==
    IF part > Len(parts) \/ acc.panic THEN acc
    ELSE LET cps == parts[part]
             first_custom_material == f.materials[SetCostumes(f)[1]]
             first_material == first_custom_material.parts[part]
             skip == [acc EXCEPT !.first_custom_sizes = Append(@, None)]
         IN  IF ~cps.some THEN MeasureLoop(f, parts, part + 1, skip)
             ELSE IF ~first_material.texture_map.some
             THEN MeasureLoop(f, parts, part + 1, skip)
             ELSE IF cps.val \notin DOMAIN f.models THEN [acc EXCEPT !.panic = TRUE]
             ELSE IF f.models[cps.val] = <<>> THEN MeasureLoop(f, parts, part + 1, skip)
             ELSE LET id == first_material.texture_map.val
                      first_texture_map == first_custom_material.textures[id]
                      txxf == UnwrapOrDefault(first_material.texture_transform)
                      first_size == SizeF(first_material, first_texture_map)
                  IN  IF first_size[1].n < 0 \/ first_size[2].n < 0
                      THEN [acc EXCEPT !.panic = TRUE]
                      ELSE MeasureLoop(f, parts, part + 1,
                              [acc EXCEPT
                                 !.first_custom_sizes =
                                     Append(@, Some(SizeU32(first_material, first_texture_map))),
                                 !.texture_order =
                                     IF id \in DOMAIN acc.texture_extents THEN @
                                     ELSE Append(@, id),
                                 !.texture_extents =
                                     EntryOr(@, id, FindPixelExtents(f.models[cps.val], txxf,
                                                                     first_texture_map))])

\* main.rs 352-410: MEASURE of the first costume
Measure(f) ==
    IF SetCostumes(f) = <<>> THEN TexFail(f, Panic("index out of bounds"))
    ELSE LET acc == MeasureLoop(f, SetParts(f.t, f.set), 1,
                        [first_custom_sizes |-> <<>>, texture_order |-> <<>>,
                         texture_extents |-> EmptyMap, panic |-> FALSE])
         IN  IF acc.panic THEN TexFail(f, Panic("assertion failed"))
             ELSE [f EXCEPT !.pc = "validate",
                            !.valid_costumes = <<SetCostumes(f)[1]>>,
                            !.first_custom_sizes = acc.first_custom_sizes,
                            !.texture_order = acc.texture_order,
                            !.texture_extents = acc.texture_extents]

\* mutant of Incompatible: the sizes are compared before they are rounded up
Incompatible_m(f, parts, costume, part) ==
    LET material == f.materials[costume].parts[part]
        first_material == f.materials[SetCostumes(f)[1]].parts[part]
    IN  /\ parts[part].some
        /\ f.first_custom_sizes[part].some
        /\ material.texture_map.some
        /\ SizeF(material, f.materials[costume].textures[material.texture_map.val])
             # SizeF(first_material,
                     f.materials[SetCostumes(f)[1]].textures[first_material.texture_map.val])

\* main.rs 422-449: part `part` of the costume fails the size check
Incompatible(f, parts, costume, part) ==
    LET material == f.materials[costume].parts[part]
    IN  /\ parts[part].some
        /\ f.first_custom_sizes[part].some
        /\ material.texture_map.some
        /\ SizeU32(material, f.materials[costume].textures[material.texture_map.val])
             # f.first_custom_sizes[part].val

\* main.rs 413-452: VALIDATE of the other costumes
RECURSIVE ValidateLoop(_, _, _, _)
ValidateLoop(f, parts, c, acc) ==
    IF c > Len(SetCostumes(f)) THEN acc
    ELSE LET costume == SetCostumes(f)[c]
         IN  IF \E part \in 1..Len(parts) : Incompatible(f, parts, costume, part)
             THEN ValidateLoop(f, parts, c + 1,
                               [acc EXCEPT !.diagnostics = Append(@, costume)])
             ELSE ValidateLoop(f, parts, c + 1,
                               [acc EXCEPT !.valid_costumes = Append(@, costume)])

Validate(f) ==
    LET acc == ValidateLoop(f, SetParts(f.t, f.set), 2,
                            [valid_costumes |-> f.valid_costumes,
                             diagnostics |-> f.diagnostics])
    IN  [f EXCEPT !.pc = IF f.texture_order = <<>> THEN "accessory" ELSE "pack",
                  !.k = 1,
                  !.valid_costumes = acc.valid_costumes,
                  !.diagnostics = acc.diagnostics]

\* main.rs 634-642 / 567-573: the rectangles pushed, in the order given
RectsToPlace(texture_extents, order) ==
    [i \in 1..Len(order) |->
        [id |-> order[i], w |-> Width(texture_extents[order[i]]),
         h |-> Height(texture_extents[order[i]])]]

\* main.rs 633-643: PACK
Pack(f) ==
    LET r == PackToMinimalSquare(RectsToPlace(f.texture_extents, f.texture_order))
    IN  IF r.tag # "Ok" THEN TexFail(f, r)
        ELSE [f EXCEPT !.pc = "remap", !.size = r.size, !.layout = r.layout]

\* main.rs 670-687 / 592-610: the new map of one vertex
RemapVertex(material, map, texture_map, extents, location, size) ==
    LET original_source_pixel ==
            Pixels(UnwrapOrDefault(material.texture_transform), map, texture_map)
        cropped_source_pixel ==
            <<FSub(original_source_pixel[1], F(extents.min[1], 1)),
              FSub(original_source_pixel[2], F(extents.min[2], 1))>>
        dest_pixel ==
            <<FAdd(cropped_source_pixel[1], F(location.x, 1)),
              FAdd(cropped_source_pixel[2], F(location.y, 1))>>
    IN  <<FMul(dest_pixel[1], F(1, size)), FMul(dest_pixel[2], F(1, size))>>

RemapVertices(material, vertices, texture_map, extents, location, size) ==
    [v \in 1..Len(vertices) |->
        RemapVertex(material, vertices[v], texture_map, extents, location, size)]

\* main.rs 646-689: the loop over the parts of the set; acc holds the models
RECURSIVE RemapLoop(_, _, _, _)
RemapLoop(f, parts, part, acc) ==
    IF part > Len(parts) \/ acc.panic THEN acc
    ELSE LET cps == parts[part]
             first_custom_material == f.materials[SetCostumes(f)[1]]
             material == first_custom_material.parts[part]
         IN  IF ~cps.some \/ ~material.texture_map.some
             THEN RemapLoop(f, parts, part + 1, acc)
             ELSE LET id == material.texture_map.val
                  IN  IF id \notin DOMAIN f.texture_extents \/ id \notin DOMAIN f.layout
                         \/ cps.val \notin DOMAIN acc.models
                      THEN [acc EXCEPT !.panic = TRUE]
                      ELSE RemapLoop(f, parts, part + 1,
                              [acc EXCEPT !.models[cps.val] =
                                  RemapVertices(material, @, first_custom_material.textures[id],
                                                f.texture_extents[id], f.layout[id], f.size),
                                          !.remapped = Append(@, cps.val)])

\* main.rs 645-689: REMAP
Remap(f) ==
    LET acc == RemapLoop(f, SetParts(f.t, f.set), 1,
                         [models |-> f.models, remapped |-> f.remapped, panic |-> FALSE])
    IN  IF acc.panic THEN TexFail(f, Panic("key not found"))
        ELSE [f EXCEPT !.pc = "blit", !.k = 1, !.models = acc.models,
                       !.remapped = acc.remapped]

(***************************************************************************)
(* blit (main.rs 488-517).  A canvas is the row-major byte sequence of a   *)
(* size x size image, a texture map the row-major bytes of width x height. *)
(***************************************************************************)
Clamp(v, lo, hi) == IF v < lo THEN lo ELSE IF v > hi THEN hi ELSE v

Min2(a, b) == IF a < b THEN a ELSE b

\* the length of the u32 range lo..hi
RangeLen(lo, hi) == IF hi > lo THEN hi - lo ELSE 0

\* mutant of SourceByte: the row wraps around instead of being clamped
SourceByte_m(texture_map, x, y) ==
    texture_map.data[texture_map.width * (y % texture_map.height)
                     + Clamp(x, 0, texture_map.width - 1) + 1]

\* main.rs 497-500, 510, 512: the texture byte read for source pixel (x, y)
SourceByte(texture_map, x, y) ==
    texture_map.data[texture_map.width * Clamp(y, 0, texture_map.height - 1)
                     + Clamp(x, 0, texture_map.width - 1) + 1]

\* main.rs 496-505: the rows copied onto a canvas of `rows` rows
BlitHeight(extents, rows, location) ==
    Min2(RangeLen(extents.min[2], extents.max[2]),
         IF rows > location.y THEN rows - location.y ELSE 0)

\* main.rs 497-516: the indexing and the assertions that make blit panic
BlitPanics(texture_map, extents, rows, size, location) ==
    LET columns == RangeLen(extents.min[1], extents.max[1])
        height == BlitHeight(extents, rows, location)
        \* the zip pulls one more source row when the canvas rows end first
        pulled == IF RangeLen(extents.min[2], extents.max[2]) > height
                  THEN height + 1 ELSE height
    IN  \/ pulled > 0 /\ (texture_map.width = 0 \/ texture_map.height = 0
                            \/ Len(texture_map.data) < texture_map.width * texture_map.height)
        \/ height > 0 /\ columns > 0 /\ columns + location.x > size
        \/ height > 0 /\ columns # location.width
        \/ height # location.height

\* main.rs 488-517
Blit(texture_map, extents, canvas, size, location) ==
    IF size = 0 THEN Panic("chunk size must be non-zero")
    ELSE IF BlitPanics(texture_map, extents, Len(canvas) \div size, size, location)
    THEN Panic("blit")
    ELSE [tag |-> "Ok",
          canvas |->
            [i \in 1..Len(canvas) |->
                LET x == (i - 1) % size
                    y == (i - 1) \div size
                IN  IF /\ x >= location.x
                       /\ x < location.x + RangeLen(extents.min[1], extents.max[1])
                       /\ y >= location.y
                       /\ y < location.y
                              + BlitHeight(extents, Len(canvas) \div size, location)
                    THEN SourceByte(texture_map, extents.min[1] + (x - location.x),
                                    extents.min[2] + (y - location.y))
                    ELSE canvas[i]]]

(***************************************************************************)
(* Output paths.  A name is the sequence of its characters, so that two    *)
(* paths are equal exactly when their strings are.                         *)
(***************************************************************************)
RECURSIVE Digits(_)
Digits(n) ==
    LET d == <<"0", "1", "2", "3", "4", "5", "6", "7", "8", "9">>[(n % 10) + 1]
    IN  IF n < 10 THEN <<d>> ELSE Append(Digits(n \div 10), d)

\* {costume:03}
Pad3(n) ==
    LET ds == Digits(n)
    IN  IF Len(ds) >= 3 THEN ds ELSE [i \in 1..(3 - Len(ds)) |-> "0"] \o ds

\* mutant of PngPath: the costume is left out of the name
PngPath_m(name, costume) == name \o <<".", "p", "n", "g">>

\* main.rs 721 / 628: format!("{name}.{costume:03}.png")
PngPath(name, costume) == name \o <<".">> \o Pad3(costume) \o <<".", "p", "n", "g">>

\* main.rs 1193: format!("{name}.glb")
GlbPath(name) == name \o <<".", "g", "l", "b">>

(***************************************************************************)
(* The atlas images.  A canvas lives from its allocation to write_png; the *)
(* frame keeps, instead of its size * size bytes, the patches blit copied  *)
(* onto it, and whether one of the blit calls panicked.                    *)
(***************************************************************************)
Patch(texture, extents, location) ==
    [texture |-> texture, extents |-> extents, location |-> location]

\* main.rs 696-719: the loop over the parts of the set for one costume; acc
\* holds copied and the patches
RECURSIVE DrawLoop(_, _, _, _, _)
DrawLoop(f, parts, costume, part, acc) ==
    IF part > Len(parts) \/ acc.panic THEN acc
    ELSE LET custom_material == f.materials[costume]
             material == custom_material.parts[part]
             first == f.materials[SetCostumes(f)[1]].parts[part].texture_map
         IN  IF ~parts[part].some \/ ~material.texture_map.some \/ ~first.some
             THEN DrawLoop(f, parts, costume, part + 1, acc)
             ELSE IF first.val \in acc.copied
             THEN DrawLoop(f, parts, costume, part + 1, acc)
             ELSE IF first.val \notin DOMAIN f.texture_extents
                     \/ first.val \notin DOMAIN f.layout
                     \/ BlitPanics(custom_material.textures[material.texture_map.val],
                                   f.texture_extents[first.val], f.size, f.size,
                                   f.layout[first.val])
             THEN [acc EXCEPT !.panic = TRUE]
             ELSE DrawLoop(f, parts, costume, part + 1,
                     [acc EXCEPT !.copied = @ \cup {first.val},
                                 !.patches = Append(@, Patch(material.texture_map.val,
                                                             f.texture_extents[first.val],
                                                             f.layout[first.val]))])

\* main.rs 692-724: one iteration of the loop over valid_costumes; io_ok
\* tells whether File::create and write_png succeed
DrawCostume(f, io_ok) ==
    LET costume == f.valid_costumes[f.k]
        acc == DrawLoop(f, SetParts(f.t, f.set), costume, 1,
                        [copied |-> {}, patches |-> <<>>, panic |-> FALSE])
    IN  IF acc.panic THEN TexFail(f, Panic("blit"))
        ELSE IF ~io_ok THEN TexFail(f, Err("io"))
        ELSE [f EXCEPT !.pc = IF f.k = Len(f.valid_costumes) THEN "clear" ELSE "blit",
                       !.k = f.k + 1,
                       !.files = Append(@, [path |-> PngPath(f.t.name, costume),
                                            set |-> f.set, size |-> f.size,
                                            patches |-> acc.patches])]

\* main.rs 540-563: texture_extents of the accessories of one custom material
RECURSIVE AccExtents(_, _, _)
AccExtents(custom_material, part_id, texture_extents) ==
    IF part_id >= Len(custom_material.parts) THEN texture_extents
    ELSE LET material == custom_material.parts[part_id + 1]
         IN  IF \/ part_id \notin DOMAIN custom_material.accessories
                \/ custom_material.accessories[part_id] = <<>>
                \/ ~material.texture_map.some
             THEN AccExtents(custom_material, part_id + 1, texture_extents)
             ELSE AccExtents(custom_material, part_id + 1,
                     EntryOr(texture_extents, material.texture_map.val,
                             FindPixelExtents(custom_material.accessories[part_id],
                                              UnwrapOrDefault(material.texture_transform),
                                              custom_material.textures[material.texture_map.val])))

\* the orders in which a HashMap may iterate over its keys
Orders(keys) ==
    { o \in [1..Cardinality(keys) -> keys] : \A i, j \in DOMAIN o : o[i] = o[j] => i = j }

\* after the costume at k: the next costume of the set, or the clear step
AccNext(f) ==
    [f EXCEPT !.pc = IF f.k = Len(SetCostumes(f)) THEN "clear" ELSE "accessory",
              !.k = f.k + 1]

\* mutant of AccMeasure: a costume without textured accessories is packed too
AccMeasure_m(f, order) ==
    LET texture_extents == AccExtents(f.materials[SetCostumes(f)[f.k]], 0, EmptyMap)
        r == PackToMinimalSquare(RectsToPlace(texture_extents, order))
    IN  IF r.tag # "Ok" THEN TexFail(f, r)
        ELSE [f EXCEPT !.pc = "acc_remap", !.texture_extents = texture_extents,
                       !.size = r.size, !.layout = r.layout]

\* main.rs 536-574: measure and pack the accessories of the costume at k; order
\* is the iteration order of texture_extents at line 567
AccMeasure(f, order) ==
    LET texture_extents == AccExtents(f.materials[SetCostumes(f)[f.k]], 0, EmptyMap)
        r == PackToMinimalSquare(RectsToPlace(texture_extents, order))
    IN  IF DOMAIN texture_extents = {} THEN AccNext(f)
        ELSE IF r.tag # "Ok" THEN TexFail(f, r)
        ELSE [f EXCEPT !.pc = "acc_remap", !.texture_extents = texture_extents,
                       !.size = r.size, !.layout = r.layout]

\* main.rs 577-612: the new accessories of the costume at k
RECURSIVE AccRemapLoop(_, _, _, _)
AccRemapLoop(f, custom_material, part_id, accessories) ==
    IF part_id >= Len(custom_material.parts) THEN accessories
    ELSE LET material == custom_material.parts[part_id + 1]
         IN  IF \/ part_id \notin DOMAIN accessories
                \/ accessories[part_id] = <<>>
                \/ ~material.texture_map.some
             THEN AccRemapLoop(f, custom_material, part_id + 1, accessories)
             ELSE AccRemapLoop(f, custom_material, part_id + 1,
                     [accessories EXCEPT ![part_id] =
                         RemapVertices(material, @,
                                       custom_material.textures[material.texture_map.val],
                                       f.texture_extents[material.texture_map.val],
                                       f.layout[material.texture_map.val], f.size)])

AccRemap(f) ==
    LET costume == SetCostumes(f)[f.k]
    IN  [f EXCEPT !.pc = "acc_blit",
                  !.materials[costume].accessories =
                      AccRemapLoop(f, f.materials[costume], 0, @)]

\* main.rs 616-627: the loop over the materials of the costume
RECURSIVE AccDrawLoop(_, _, _, _)
AccDrawLoop(f, custom_material, i, acc) ==
    IF i > Len(custom_material.parts) \/ acc.panic THEN acc
    ELSE LET id == custom_material.parts[i].texture_map
         IN  IF ~id.some THEN AccDrawLoop(f, custom_material, i + 1, acc)
             ELSE IF id.val \notin DOMAIN f.layout
             THEN AccDrawLoop(f, custom_material, i + 1, acc)
             ELSE IF BlitPanics(custom_material.textures[id.val], f.texture_extents[id.val],
                                f.size, f.size, f.layout[id.val])
             THEN [acc EXCEPT !.panic = TRUE]
             ELSE AccDrawLoop(f, custom_material, i + 1,
                     [acc EXCEPT !.patches = Append(@, Patch(id.val, f.texture_extents[id.val],
                                                             f.layout[id.val]))])

\* main.rs 614-630: the atlas of the costume at k
AccDraw(f, io_ok) ==
    LET costume == SetCostumes(f)[f.k]
        acc == AccDrawLoop(f, f.materials[costume], 1, [patches |-> <<>>, panic |-> FALSE])
    IN  IF acc.panic THEN TexFail(f, Panic("blit"))
        ELSE IF ~io_ok THEN TexFail(f, Err("io"))
        ELSE [AccNext(f) EXCEPT
                 !.files = Append(@, [path |-> PngPath(f.t.name, costume), set |-> f.set,
                                      size |-> f.size, patches |-> acc.patches])]

\* main.rs 727-733: the transforms of one custom material are cleared
ClearTransforms(custom_material) ==
    [custom_material EXCEPT
        !.parts = [i \in 1..Len(@) |-> [@[i] EXCEPT !.texture_transform = None]]]

\* mutant of Clear: pack_textures returns after the first set
Clear_m(f) ==
    [f EXCEPT !.pc = "export",
              !.set = f.set + 1,
              !.materials = [c \in DOMAIN @ |->
                                IF \E i \in DOMAIN SetCostumes(f) : SetCostumes(f)[i] = c
                                THEN ClearTransforms(@[c]) ELSE @[c]]]

\* main.rs 727-734: clear, then the next set or the end of pack_textures
Clear(f) ==
    [f EXCEPT !.pc = IF f.set + 1 = Len(f.t.part_sets) THEN "export" ELSE "measure",
              !.set = f.set + 1,
              !.materials = [c \in DOMAIN @ |->
                                IF \E i \in DOMAIN SetCostumes(f) : SetCostumes(f)[i] = c
                                THEN ClearTransforms(@[c]) ELSE @[c]]]

\* main.rs 104-226: the loads of the template; load_ok tells whether all of
\* them succeed
Load(f, load_ok) ==
    IF ~load_ok THEN TexFail(f, Err("load"))
    ELSE [f EXCEPT !.pc = IF f.t.part_sets = <<>> THEN "export" ELSE "measure"]

\* main.rs 897-906: one image per costume id of every part set, with its URI
ImageUris(t) ==
    LET ids == Flatten(t.part_sets)
    IN  [k \in 1..Len(ids) |-> PngPath(t.name, ids[k])]

\* main.rs 230-235, 756-1205: export_model; export_ok tells whether the
\* document is built and File::create and to_writer succeed
Export(f, export_ok) ==
    IF ~export_ok THEN TexFail(f, Err("export"))
    ELSE [f EXCEPT !.pc = "done", !.result = [tag |-> "Ok"],
                   !.images = ImageUris(f.t),
                   !.files = Append(@, [path |-> GlbPath(f.t.name), set |-> f.set,
                                        size |-> 0, patches |-> <<>>])]

(***************************************************************************)
(* Rectangle lists handed to pack_to_minimal_square                        *)
(***************************************************************************)
MaxRects == 2

RectDims ==
    { <<1, 1>>, <<8, 3>>, <<5, 9>>, <<100, 20>>, <<2000, 2100>>, <<4096, 1>>,
      <<1, 4097>> }

SquareInputs ==
    { [k \in 1..Len(ds) |-> [id |-> k, w |-> ds[k][1], h |-> ds[k][2]]] :
        ds \in TokSeqs(RectDims, MaxRects) }

InitSquare ==
    /\ LoadersIdle
    /\ ArchiveIdle
    /\ tex = TexIdle
    /\ bl = BlIdle
    /\ sq \in { [pc |-> "call", rects_to_place |-> rects] : rects \in SquareInputs }

\* pack_to_minimal_square(rects_to_place)
SquareCall ==
    /\ sq.pc = "call"
    /\ sq' = SquareFrame(sq.rects_to_place)
    /\ UNCHANGED <<loadVars, dec, rol, chunky, call, tex, bl>>

SquareProbe ==
    /\ sq.pc = "loop"
    /\ sq' = SquareIter(sq)
    /\ UNCHANGED <<loadVars, dec, rol, chunky, call, tex, bl>>

NextSquare == SquareCall \/ SquareProbe

SpecSquare == InitSquare /\ [][NextSquare]_vars

\* the rectangles pack into a bin of edge s
PacksAt(rects, s) == PackRects(rects, s).tag = "Ok"

EdgeLengths == {SIZES[i] : i \in 1..Len(SIZES)}

\* C13: pack_to_minimal_square returns the smallest edge length of 8, 16, ...,
\* 4096 at which all rectangles pack, with the layout produced at exactly that
\* edge length; it returns an error only when the rectangles do not pack at
\* 4096; and every iteration of the search loop shortens the list of sizes
\* left to try, so the loop terminates.
C13_MinimalSquare ==
    /\ [](sq.pc = "ok" =>
            /\ sq.result.tag = "Ok"
            /\ sq.result.size \in EdgeLengths
            /\ PacksAt(sq.rects_to_place, sq.result.size)
            /\ \A s \in EdgeLengths :
                  s < sq.result.size => ~PacksAt(sq.rects_to_place, s)
            /\ sq.result.layout
                  = PackRects(sq.rects_to_place, sq.result.size).packed_locations)
    /\ [](sq.pc = "err" =>
            /\ sq.result.tag = "Err"
            /\ ~PacksAt(sq.rects_to_place, 4096))
    /\ [][sq.pc = "loop" =>
            \/ sq'.pc \in {"ok", "err"}
            \/ sq'.pc = "loop" /\ Len(sq'.possible_sizes) < Len(sq.possible_sizes)]_vars

\* C13 witness: two rectangles that need an edge of 128 were packed after
\* probes above and below it.
C13_Witness ==
    /\ sq.pc = "ok"
    /\ sq.result.size = 128
    /\ Len(sq.rects_to_place) = 2
    /\ sq.result.layout[2].x = 100


(***************************************************************************)
(* Calls of blit.  The canvas holds bytes no texture holds, so a write is  *)
(* visible; extents reach past the texture so that the clamps act.         *)
(***************************************************************************)
CanvasSize == 3

MaxExtent == 3

BlitTexture == [width |-> 2, height |-> 2, data |-> <<1, 2, 3, 4>>]

BlitCanvas == [i \in 1..(CanvasSize * CanvasSize) |-> 100 + i]

BlitExtents ==
    { [min |-> <<x0, y0>>, max |-> <<x1, y1>>] :
        x0 \in 0..1, y0 \in 0..1, x1 \in 0..MaxExtent, y1 \in 0..MaxExtent }

BlitLocations ==
    { [x |-> x, y |-> y, width |-> w, height |-> h] :
        x \in 0..(CanvasSize - 1), y \in 0..(CanvasSize - 1), w \in 0..2, h \in 0..2 }

InitBlit ==
    /\ LoadersIdle
    /\ ArchiveIdle
    /\ sq = SqIdle
    /\ tex = TexIdle
    /\ bl \in { [pc |-> "call", texture_map |-> BlitTexture, extents |-> e,
                 canvas |-> BlitCanvas, size |-> CanvasSize, location |-> l] :
                 e \in BlitExtents, l \in BlitLocations }

\* blit(texture_map, extents, &mut canvas, size, location)
BlitCall ==
    /\ bl.pc = "call"
    /\ bl' = [bl EXCEPT !.pc = "done",
                        !.canvas = LET r == Blit(bl.texture_map, bl.extents, bl.canvas,
                                                 bl.size, bl.location)
                                   IN  IF r.tag = "Ok" THEN r.canvas ELSE bl.canvas]
    /\ UNCHANGED <<loadVars, dec, rol, chunky, call, sq, tex>>

NextBlit == BlitCall

SpecBlit == InitBlit /\ [][NextBlit]_vars

\* C20: a call of blit that returns sets, for every (dx, dy) of the packed
\* location's width x height, the canvas byte at (loc.x + dx, loc.y + dy) to
\* the texture byte at the clamped source pixel (min.x + dx, min.y + dy),
\* leaves every other canvas byte as it was, and has copied as many rows and
\* columns as the location is high and wide.
C20_BlitRectangle ==
    [][ (BlitCall /\ Blit(bl.texture_map, bl.extents, bl.canvas, bl.size,
                          bl.location).tag = "Ok") =>
        LET loc == bl.location
            tm == bl.texture_map
            In(x, y) == /\ x >= loc.x /\ x < loc.x + loc.width
                        /\ y >= loc.y /\ y < loc.y + loc.height
        IN  /\ RangeLen(bl.extents.min[2], bl.extents.max[2]) >= loc.height
            /\ loc.height > 0 =>
                 RangeLen(bl.extents.min[1], bl.extents.max[1]) = loc.width
            /\ \A x \in 0..(bl.size - 1), y \in 0..(bl.size - 1) :
                 bl'.canvas[y * bl.size + x + 1] =
                    IF In(x, y)
                    THEN tm.data[tm.width * Clamp(bl.extents.min[2] + (y - loc.y),
                                                  0, tm.height - 1)
                                 + Clamp(bl.extents.min[1] + (x - loc.x), 0, tm.width - 1)
                                 + 1]
                    ELSE bl.canvas[y * bl.size + x + 1] ]_vars

\* a 2 x 2 patch whose source rows and columns run past the texture is on the
\* canvas at (1, 1)
C20_Witness ==
    /\ bl.pc = "done"
    /\ bl.extents = [min |-> <<1, 1>>, max |-> <<3, 3>>]
    /\ bl.location = [x |-> 1, y |-> 1, width |-> 2, height |-> 2]
    /\ bl.canvas = <<101, 102, 103, 104, 4, 4, 107, 4, 4>>


(***************************************************************************)
(* Templates as main.rs 104-226 builds them from an archive: a material    *)
(* for every costume of every set, with as many parts as the set has body  *)
(* parts, and a texture for every texture map a part names.                *)
(***************************************************************************)
Texture(w, h) == [width |-> w, height |-> h, data |-> [i \in 1..(w * h) |-> i]]

Plain(id) == [texture_map |-> Some(id), texture_transform |-> None]

Untextured == [texture_map |-> None, texture_transform |-> None]

Scaled(id, n, d) ==
    [texture_map |-> Some(id),
     texture_transform |-> Some([min |-> <<F(0, 1), F(0, 1)>>, max |-> <<F(n, d), F(1, 1)>>])]

UV(xn, xd, yn, yd) == <<F(xn, xd), F(yn, yd)>>

\* a mesh whose maps span the whole texture
Whole == <<UV(0, 1, 0, 1), UV(1, 1, 1, 1)>>

\* a mesh whose maps span the lower right quarter
Quarter == <<UV(1, 2, 1, 2), UV(1, 1, 1, 1)>>

\* a mesh with a map left of the texture
Tiled == <<UV(-1, 2, 0, 1), UV(1, 2, 1, 1)>>

Custom(parts, textures, accessories) ==
    [parts |-> parts, textures |-> textures, accessories |-> accessories]

Template(part_sets, groups, cells0, models, materials) ==
    [part_sets |-> part_sets, groups |-> groups, cells0 |-> cells0,
     models |-> models, materials |-> materials]

\* two parts, three costumes whose textures have the same sizes once the
\* transforms are applied and the result is rounded up
TShared ==
    Template(<<<<1, 2, 3>>>>, <<0, 0>>, <<Some(0), Some(1)>>,
             (0 :> Whole) @@ (1 :> Quarter),
             (1 :> Custom(<<Plain(10), Plain(11)>>,
                          (10 :> Texture(2, 2)) @@ (11 :> Texture(4, 2)), EmptyMap))
             @@ (2 :> Custom(<<Plain(20), Scaled(21, 2, 1)>>,
                             (20 :> Texture(2, 2)) @@ (21 :> Texture(2, 2)), EmptyMap))
             @@ (3 :> Custom(<<Scaled(10, 3, 4), Untextured>>,
                             (10 :> Texture(2, 2)), EmptyMap)))

\* costume 2 has a texture of another size on part 1, costume 3 has not
TMismatch ==
    Template(<<<<1, 2, 3>>>>, <<0, 0>>, <<Some(0), Some(1)>>,
             (0 :> Whole) @@ (1 :> Quarter),
             (1 :> Custom(<<Plain(10), Plain(11)>>,
                          (10 :> Texture(2, 2)) @@ (11 :> Texture(4, 2)), EmptyMap))
             @@ (2 :> Custom(<<Plain(20), Plain(21)>>,
                             (20 :> Texture(2, 2)) @@ (21 :> Texture(2, 2)), EmptyMap))
             @@ (3 :> Custom(<<Plain(30), Plain(11)>>,
                             (30 :> Texture(2, 2)) @@ (11 :> Texture(4, 2)), EmptyMap)))

\* part 1 has no model in the first cell, part 2 a model without vertices;
\* costume 2 has textures of other sizes on both
TNoModel ==
    Template(<<<<1, 2>>>>, <<0, 0, 0>>, <<Some(0), None, Some(2)>>,
             (0 :> Whole) @@ (2 :> <<>>),
             (1 :> Custom(<<Plain(10), Plain(11), Plain(10)>>,
                          (10 :> Texture(2, 2)) @@ (11 :> Texture(4, 2)), EmptyMap))
             @@ (2 :> Custom(<<Plain(20), Plain(21), Plain(22)>>,
                             (20 :> Texture(2, 2)) @@ (21 :> Texture(2, 2))
                             @@ (22 :> Texture(4, 4)), EmptyMap)))

\* the only part that uses texture 11 has a model without vertices
TEmptyMesh ==
    Template(<<<<1>>>>, <<0, 0>>, <<Some(0), Some(1)>>,
             (0 :> Whole) @@ (1 :> <<>>),
             (1 :> Custom(<<Plain(10), Plain(11)>>,
                          (10 :> Texture(2, 2)) @@ (11 :> Texture(4, 2)), EmptyMap)))

\* no body part has a model; the costumes carry accessories
TAccessory ==
    Template(<<<<1, 2, 3>>>>, <<0, 0>>, <<None, None>>, EmptyMap,
             (1 :> Custom(<<Plain(10), Plain(11)>>,
                          (10 :> Texture(2, 2)) @@ (11 :> Texture(4, 2)),
                          (0 :> Whole) @@ (1 :> Quarter)))
             @@ (2 :> Custom(<<Untextured, Plain(20)>>, (20 :> Texture(2, 2)),
                             (0 :> Whole) @@ (5 :> Whole)))
             @@ (3 :> Custom(<<Scaled(30, 100, 1), Plain(30)>>, (30 :> Texture(2, 2)),
                             (0 :> Whole) @@ (1 :> <<>>))))

\* two parts of one set use the same model and the same texture
TSharedModel ==
    Template(<<<<1>>>>, <<0, 0>>, <<Some(0), Some(0)>>, (0 :> Whole),
             (1 :> Custom(<<Plain(10), Plain(10)>>, (10 :> Texture(2, 2)), EmptyMap)))

\* a texture that tiles: one map lies left of the texture
TTiled ==
    Template(<<<<1>>>>, <<0>>, <<Some(0)>>, (0 :> Tiled),
             (1 :> Custom(<<Plain(10)>>, (10 :> Texture(8, 4)), EmptyMap)))

\* two sets of one part each
TTwoSets ==
    Template(<<<<1>>, <<2>>>>, <<0, 1>>, <<Some(0), Some(1)>>,
             (0 :> Whole) @@ (1 :> Quarter),
             (1 :> Custom(<<Plain(10)>>, (10 :> Texture(2, 2)), EmptyMap))
             @@ (2 :> Custom(<<Plain(20)>>, (20 :> Texture(4, 2)), EmptyMap)))

\* two sets that name the same costume
TSameCostume ==
    Template(<<<<1>>, <<1>>>>, <<0, 1>>, <<Some(0), Some(1)>>,
             (0 :> Whole) @@ (1 :> Quarter),
             (1 :> Custom(<<Plain(10)>>, (10 :> Texture(2, 2)), EmptyMap)))

\* a transform that stretches the texture to 8192 pixels
TTooLarge ==
    Template(<<<<1>>>>, <<0>>, <<Some(0)>>, (0 :> Whole),
             (1 :> Custom(<<Scaled(10, 4096, 1)>>, (10 :> Texture(2, 2)), EmptyMap)))

\* no set at all
TNoSets == Template(<<>>, <<>>, <<>>, EmptyMap, EmptyMap)

Templates ==
    {TShared, TMismatch, TNoModel, TEmptyMesh, TAccessory, TSharedModel, TTiled,
     TTwoSets, TSameCostume, TTooLarge, TNoSets}


(***************************************************************************)
(* main (main.rs 97-239): the TMPL chunks of the archive are handed to     *)
(* rayon workers; tex.worker[w] is the frame of the closure run on chunk   *)
(* w, tex.main the value main returns.  Chunk names come from the archive  *)
(* index, in which the key of a chunk is its id, not its name.             *)
(***************************************************************************)
Workers == 1..2

TemplateNames == {<<"A">>, <<"B">>}

\* the chunks the second worker gets
Others == {TShared, TNoSets}

Named(t, name) == TexFrame(t @@ [name |-> name], t.models, t.materials)

InitTex ==
    /\ LoadersIdle
    /\ ArchiveIdle
    /\ sq = SqIdle
    /\ bl = BlIdle
    /\ \E t1 \in Templates, t2 \in Others, n2 \in TemplateNames :
          tex = [worker |-> (1 :> Named(t1, <<"A">>)) @@ (2 :> Named(t2, n2)),
                 main |-> [tag |-> "None"]]

\* worker w moves from frame tex.worker[w] to frame g
Step(w, g) == tex' = [tex EXCEPT !.worker[w] = g]

At(w, pc) == tex.main.tag = "None" /\ tex.worker[w].pc = pc

LoadTemplate(w) ==
    /\ At(w, "load")
    /\ \E load_ok \in BOOLEAN : Step(w, Load(tex.worker[w], load_ok))
    /\ UNCHANGED <<loadVars, dec, rol, chunky, call, sq, bl>>

MeasureSet(w) ==
    /\ At(w, "measure")
    /\ Step(w, Measure(tex.worker[w]))
    /\ UNCHANGED <<loadVars, dec, rol, chunky, call, sq, bl>>

ValidateSet(w) ==
    /\ At(w, "validate")
    /\ Step(w, Validate(tex.worker[w]))
    /\ UNCHANGED <<loadVars, dec, rol, chunky, call, sq, bl>>

PackSet(w) ==
    /\ At(w, "pack")
    /\ Step(w, Pack(tex.worker[w]))
    /\ UNCHANGED <<loadVars, dec, rol, chunky, call, sq, bl>>

RemapSet(w) ==
    /\ At(w, "remap")
    /\ Step(w, Remap(tex.worker[w]))
    /\ UNCHANGED <<loadVars, dec, rol, chunky, call, sq, bl>>

BlitCostume(w) ==
    /\ At(w, "blit")
    /\ \E io_ok \in BOOLEAN : Step(w, DrawCostume(tex.worker[w], io_ok))
    /\ UNCHANGED <<loadVars, dec, rol, chunky, call, sq, bl>>

AccessoryMeasure(w) ==
    /\ At(w, "accessory")
    /\ LET f == tex.worker[w]
       IN  \E order \in Orders(DOMAIN AccExtents(f.materials[SetCostumes(f)[f.k]], 0,
                                                 EmptyMap)) :
              Step(w, AccMeasure(f, order))
    /\ UNCHANGED <<loadVars, dec, rol, chunky, call, sq, bl>>

AccessoryRemap(w) ==
    /\ At(w, "acc_remap")
    /\ Step(w, AccRemap(tex.worker[w]))
    /\ UNCHANGED <<loadVars, dec, rol, chunky, call, sq, bl>>

AccessoryBlit(w) ==
    /\ At(w, "acc_blit")
    /\ \E io_ok \in BOOLEAN : Step(w, AccDraw(tex.worker[w], io_ok))
    /\ UNCHANGED <<loadVars, dec, rol, chunky, call, sq, bl>>

ClearSet(w) ==
    /\ At(w, "clear")
    /\ Step(w, Clear(tex.worker[w]))
    /\ UNCHANGED <<loadVars, dec, rol, chunky, call, sq, bl>>

ExportModel(w) ==
    /\ At(w, "export")
    /\ \E export_ok \in BOOLEAN : Step(w, Export(tex.worker[w], export_ok))
    /\ UNCHANGED <<loadVars, dec, rol, chunky, call, sq, bl>>

\* main.rs 102: try_for_each does not start a closure once another failed
SkipTemplate(w) ==
    /\ At(w, "load")
    /\ \E v \in Workers : tex.worker[v].pc = "err"
    /\ Step(w, [tex.worker[w] EXCEPT !.pc = "skipped"])
    /\ UNCHANGED <<loadVars, dec, rol, chunky, call, sq, bl>>

Ended(f) == f.pc \in {"done", "err", "panic", "skipped"}

\* main.rs 236-238: the value of try_for_each is the value of main
MainReturn ==
    /\ tex.main.tag = "None"
    /\ \A w \in Workers : Ended(tex.worker[w])
    /\ tex' = [tex EXCEPT !.main =
                  IF \E w \in Workers : tex.worker[w].pc = "panic" THEN Panic("worker")
                  ELSE IF \E w \in Workers : tex.worker[w].pc = "err"
                       THEN Err("template") ELSE [tag |-> "Ok"]]
    /\ UNCHANGED <<loadVars, dec, rol, chunky, call, sq, bl>>

NextTex ==
    \/ \E w \in Workers :
          \/ LoadTemplate(w) \/ MeasureSet(w) \/ ValidateSet(w) \/ PackSet(w)
          \/ RemapSet(w) \/ BlitCostume(w) \/ AccessoryMeasure(w) \/ AccessoryRemap(w)
          \/ AccessoryBlit(w) \/ ClearSet(w) \/ ExportModel(w) \/ SkipTemplate(w)
    \/ MainReturn

SpecTex == InitTex /\ [][NextTex]_vars


(***************************************************************************)
(* Claims about pack_textures and main                                     *)
(***************************************************************************)
\* the worker has written the atlas of the costume while working on the set
HasPng(f, set, costume) ==
    \E i \in 1..Len(f.files) :
        f.files[i].path = PngPath(f.t.name, costume) /\ f.files[i].set = set

\* the shared-mesh branch has run to its end for the current set
SharedDone(f) == f.pc = "clear" /\ f.texture_order # <<>>

\* part `part` of the set is textured in the first costume and in `costume`,
\* with sizes that differ after rounding up
SizesDiffer(f, costume, part) ==
    LET first_custom == f.materials[SetCostumes(f)[1]]
        custom == f.materials[costume]
    IN  /\ first_custom.parts[part].texture_map.some
        /\ custom.parts[part].texture_map.some
        /\ SizeU32(first_custom.parts[part],
                   first_custom.textures[first_custom.parts[part].texture_map.val])
             # SizeU32(custom.parts[part], custom.textures[custom.parts[part].texture_map.val])

\* part `part` of the set has a model with at least one vertex in the first cell
HasMesh(f, part) ==
    LET cps == SetParts(f.t, f.set)[part]
    IN  cps.some /\ cps.val \in DOMAIN f.models /\ f.models[cps.val] # <<>>

\* C12 as stated: when the shared-mesh branch has run for a set, a non-first
\* costume has no PNG exactly when some part textured in the first costume
\* and in that costume has a different rounded-up size.
C12_Original ==
    \A w \in Workers :
        LET f == tex.worker[w]
        IN  SharedDone(f) =>
              \A c \in 2..Len(SetCostumes(f)) :
                 ~HasPng(f, f.set, SetCostumes(f)[c])
                   <=> \E part \in 1..Len(SetParts(f.t, f.set)) :
                          SizesDiffer(f, SetCostumes(f)[c], part)

\* C12 amended: when the shared-mesh branch has run for a set, a non-first
\* costume has no PNG exactly when some part that has a model with vertices
\* and is textured in the first costume and in that costume has a different
\* rounded-up size; the first costume's PNG is written; and the validate step
\* always goes on to pack or to the accessory branch, never to an error.
C12_Amended ==
    /\ [](\A w \in Workers :
            LET f == tex.worker[w]
            IN  SharedDone(f) =>
                  /\ HasPng(f, f.set, SetCostumes(f)[1])
                  /\ \A c \in 2..Len(SetCostumes(f)) :
                        ~HasPng(f, f.set, SetCostumes(f)[c])
                          <=> \E part \in 1..Len(SetParts(f.t, f.set)) :
                                 /\ HasMesh(f, part)
                                 /\ SizesDiffer(f, SetCostumes(f)[c], part))
    /\ [][\A w \in Workers :
            ValidateSet(w) => tex'.worker[w].pc \in {"pack", "accessory"}]_vars

\* a template is exported after costume 2 of 1, 2, 3 was excluded
C12_Witness ==
    LET f == tex.worker[1]
    IN  /\ f.pc = "done"
        /\ f.result.tag = "Ok"
        /\ f.diagnostics = <<2>>
        /\ HasPng(f, 0, 1)
        /\ ~HasPng(f, 0, 2)
        /\ HasPng(f, 0, 3)


\* 0 <= u.x, u.y <= 1
InUnitSquare(map) ==
    /\ map[1].n >= 0 /\ map[1].n <= map[1].d
    /\ map[2].n >= 0 /\ map[2].n <= map[2].d

\* C14: after the remap step of a set every map of the mesh of a textured
\* part, and after the remap of an accessory costume every map of a textured
\* accessory mesh, has both components in [0, 1].
C14_RemappedInUnitSquare ==
    \A w \in Workers :
        LET f == tex.worker[w]
            parts == SetParts(f.t, f.set)
        IN  /\ f.pc = "blit" /\ f.k = 1 =>
                 \A part \in 1..Len(parts) :
                    (/\ parts[part].some
                     /\ f.materials[SetCostumes(f)[1]].parts[part].texture_map.some) =>
                       \A v \in 1..Len(f.models[parts[part].val]) :
                          InUnitSquare(f.models[parts[part].val][v])
            /\ f.pc = "acc_blit" =>
                 LET custom == f.materials[SetCostumes(f)[f.k]]
                 IN  \A part_id \in DOMAIN custom.accessories :
                        (/\ part_id < Len(custom.parts)
                         /\ custom.parts[part_id + 1].texture_map.some) =>
                           \A v \in 1..Len(custom.accessories[part_id]) :
                              InUnitSquare(custom.accessories[part_id][v])


\* the accessory branch has run to its end for the current set
AccessoryDone(f) == f.pc = "clear" /\ f.texture_order = <<>>

\* the costume has an accessory mesh with vertices on a part whose material
\* names a texture map
TexturedAccessory(custom) ==
    \E part_id \in DOMAIN custom.accessories :
        /\ part_id < Len(custom.parts)
        /\ custom.accessories[part_id] # <<>>
        /\ custom.parts[part_id + 1].texture_map.some

\* size and layout of file come from packing the accessories of custom alone
PackedAlone(file, custom) ==
    LET texture_extents == AccExtents(custom, 0, EmptyMap)
    IN  \E order \in Orders(DOMAIN texture_extents) :
           LET r == PackToMinimalSquare(RectsToPlace(texture_extents, order))
           IN  /\ r.tag = "Ok"
               /\ file.size = r.size
               /\ \A i \in 1..Len(file.patches) :
                     /\ file.patches[i].texture \in DOMAIN texture_extents
                     /\ file.patches[i].extents = texture_extents[file.patches[i].texture]
                     /\ file.patches[i].location = r.layout[file.patches[i].texture]

\* C15: a set in which MEASURE found no textured part goes from validate to
\* the accessory branch, and only such a set does; when the branch has run,
\* no costume was excluded and no diagnostic reported, a costume has a PNG
\* exactly when it has a textured accessory mesh with vertices, and the size
\* and layout of each PNG are those of packing that costume's accessories as
\* loaded, whatever the other costumes are.
C15_AccessoryBranch ==
    /\ [](\A w \in Workers :
            LET f == tex.worker[w]
            IN  /\ f.pc \in {"accessory", "acc_remap", "acc_blit"} => f.texture_order = <<>>
                /\ f.pc \in {"pack", "remap", "blit"} => f.texture_order # <<>>
                /\ AccessoryDone(f) =>
                     /\ f.valid_costumes = SetCostumes(f)
                     /\ \A c \in 1..Len(SetCostumes(f)) :
                           HasPng(f, f.set, SetCostumes(f)[c])
                             <=> TexturedAccessory(f.t.materials[SetCostumes(f)[c]])
                     /\ \A c \in 1..Len(SetCostumes(f)), i \in 1..Len(f.files) :
                           (/\ f.files[i].set = f.set
                            /\ f.files[i].path = PngPath(f.t.name, SetCostumes(f)[c])) =>
                              PackedAlone(f.files[i], f.t.materials[SetCostumes(f)[c]]))
    /\ [][\A w \in Workers :
            ValidateSet(w) =>
               (tex'.worker[w].pc = "accessory" <=> tex.worker[w].texture_order = <<>>)]_vars

\* costumes 1 and 3 of an accessory set have atlases of 8 and 256 pixels,
\* costume 2, whose only textured part carries no accessory, has none
C15_Witness ==
    LET f == tex.worker[1]
    IN  /\ AccessoryDone(f)
        /\ Len(f.files) = 2
        /\ f.files[1].path = PngPath(f.t.name, 1) /\ f.files[1].size = 8
        /\ f.files[2].path = PngPath(f.t.name, 3) /\ f.files[2].size = 256
        /\ ~HasPng(f, 0, 2)


\* the place in measure, validate, pack, remap, blit, clear of the step a
\* worker at pc runs next; the accessory step measures and packs one costume
StepRank(pc) ==
    CASE pc = "measure" -> 1
      [] pc = "validate" -> 2
      [] pc \in {"pack", "accessory"} -> 3
      [] pc \in {"remap", "acc_remap"} -> 4
      [] pc \in {"blit", "acc_blit"} -> 5
      [] pc = "clear" -> 6
      [] OTHER -> 0

HasGlb(f) == \E i \in 1..Len(f.files) : f.files[i].path = GlbPath(f.t.name)

\* no .glb after an error, and main does not return Ok when a template failed
ErrorsAbort ==
    /\ \A w \in Workers :
          tex.worker[w].pc \in {"err", "panic", "skipped"} => ~HasGlb(tex.worker[w])
    /\ (tex.main.tag # "None" /\ \E w \in Workers : tex.worker[w].pc \in {"err", "panic"})
          => tex.main.tag \in {"Err", "Panic"}

\* the export starts only when every set has been cleared, and writes the .glb
ExportLast ==
    \A w \in Workers :
        /\ tex.worker[w].pc \in {"export", "done"}
              => tex.worker[w].set = Len(tex.worker[w].t.part_sets)
        /\ HasGlb(tex.worker[w]) => tex.worker[w].pc = "done"

\* C16 as stated: within a set the steps of a worker never go back in
\* measure, validate, pack, remap, blit, clear; a new set starts after clear
\* only; the export starts after all sets; an error leaves no .glb and makes
\* the run end with an error.
C16_Original ==
    /\ [](ErrorsAbort /\ ExportLast)
    /\ [][\A w \in Workers :
            LET a == tex.worker[w]
                b == tex'.worker[w]
            IN  (StepRank(a.pc) > 0 /\ StepRank(b.pc) > 0) =>
                   IF b.set = a.set THEN StepRank(b.pc) >= StepRank(a.pc)
                   ELSE a.pc = "clear" /\ b.pc = "measure" /\ b.set = a.set + 1]_vars

\* the steps that may follow one another in a worker
Follows(a, b) ==
    CASE a.pc = "load" -> b.pc \in {"measure", "export", "err", "skipped"}
      [] a.pc = "measure" -> b.pc \in {"validate", "panic"}
      [] a.pc = "validate" ->
            b.pc = IF a.texture_order = <<>> THEN "accessory" ELSE "pack"
      [] a.pc = "pack" -> b.pc \in {"remap", "err"}
      [] a.pc = "remap" -> b.pc \in {"blit", "panic"}
      [] a.pc = "blit" -> b.pc \in {"blit", "clear", "err", "panic"}
      [] a.pc = "accessory" -> b.pc \in {"accessory", "acc_remap", "clear", "err"}
      [] a.pc = "acc_remap" -> b.pc = "acc_blit"
      [] a.pc = "acc_blit" -> b.pc \in {"accessory", "clear", "err", "panic"}
      [] a.pc = "clear" ->
            b.pc = IF a.set + 1 = Len(a.t.part_sets) THEN "export" ELSE "measure"
      [] a.pc = "export" -> b.pc \in {"done", "err"}
      [] OTHER -> FALSE

\* C16 amended: a set with a textured part runs measure, validate, pack,
\* remap, blit (once per valid costume) and clear in that order; a set
\* without one runs measure and validate, then for each costume in turn its
\* measure and pack, remap and blit, and then clear; the set counter moves at
\* clear only; the export starts after all sets; an error leaves no .glb and
\* makes the run end with an error.
C16_Amended ==
    /\ [](ErrorsAbort /\ ExportLast)
    /\ [][\A w \in Workers :
            LET a == tex.worker[w]
                b == tex'.worker[w]
            IN  a # b =>
                  /\ Follows(a, b)
                  /\ b.set = IF a.pc = "clear" THEN a.set + 1 ELSE a.set
                  /\ (a.pc = "acc_blit" /\ b.pc = "accessory") => b.k = a.k + 1]_vars

\* one template has gone through two sets and its export, the other failed
\* and left no .glb, and main has returned the error
C16_Witness ==
    /\ tex.worker[1].pc = "done"
    /\ Len(tex.worker[1].t.part_sets) = 2
    /\ Len(tex.worker[1].files) = 3
    /\ HasGlb(tex.worker[1])
    /\ tex.worker[2].pc = "err"
    /\ tex.worker[2].files # <<>>
    /\ tex.main.tag = "Err"

\* the paths a worker has written
Paths(f) == {f.files[i].path : i \in 1..Len(f.files)}

\* C17: no path is written by two workers, and no worker writes a path twice.
C17_DisjointPaths ==
    /\ \A v, w \in Workers : v # w => Paths(tex.worker[v]) \cap Paths(tex.worker[w]) = {}
    /\ \A w \in Workers :
          \A i, j \in 1..Len(tex.worker[w].files) :
             tex.worker[w].files[i].path = tex.worker[w].files[j].path => i = j


(***************************************************************************)
(* Further properties of the decoders                                      *)
(***************************************************************************)
\* C26: in both decoders the bytes emitted never exceed the declared length
\* L, after every token, and a step that rejects a token appends nothing.
C26_WithinDeclaredLength ==
    /\ [](dec.pc \in {"loop", "ok", "err"} => Len(dec.output) <= dec.len)
    /\ [][(dec.pc = "loop" /\ dec'.pc = "err") => dec'.output = dec.output]_vars

\* a back-reference that would pass L was rejected after L - 1 bytes
C26_Witness ==
    /\ dec.pc = "err"
    /\ dec.tok = "backref"
    /\ dec.offset <= Len(dec.output)
    /\ Len(dec.output) < dec.len
    /\ Len(dec.output) + dec.length > dec.len


(***************************************************************************)
(* Further properties of pack_textures                                     *)
(***************************************************************************)
\* C27: during the run of a template no model has its maps rewritten by the
\* remap loop more than once.
C27_RemappedOnce ==
    \A w \in Workers :
        \A i, j \in 1..Len(tex.worker[w].remapped) :
           tex.worker[w].remapped[i] = tex.worker[w].remapped[j] => i = j

\* C28: when the remap step of a set with a textured part starts, the
\* texture of every part it will look up (a part with a model id whose first
\* material names a texture map) is a key of the measured extents and of the
\* packed layout; and so it is when the blit step starts.
C28_LookupsRecorded ==
    \A w \in Workers :
        LET f == tex.worker[w]
            parts == SetParts(f.t, f.set)
        IN  f.pc \in {"remap", "blit"} =>
              \A part \in 1..Len(parts) :
                 LET first == f.materials[SetCostumes(f)[1]].parts[part].texture_map
                 IN  (parts[part].some /\ first.some) =>
                        /\ first.val \in DOMAIN f.texture_extents
                        /\ first.val \in DOMAIN f.layout


(***************************************************************************)
(* glf.rs: the chunk list and its double-ended iterator                    *)
(***************************************************************************)
SizeOfListOnFile == 12

\* slice.get(from..to)
GetRangeOpt(data, from, to) ==
    IF from <= to /\ to <= Len(data) THEN Some(SubSeq(data, from + 1, to)) ELSE None

\* glf.rs 27-39: List::from_file
ListFromFile(O, full_input) ==
    LET entry_size == RdU32(O, full_input, 4)
        length == RdU32(O, full_input, 8)
        data == GetRangeOpt(full_input, SizeOfListOnFile,
                            SizeOfListOnFile + entry_size * length)
    IN  IF ~data.some THEN Err("EOF in list")
        ELSE [tag |-> "Ok", data |-> data.val,
              entry_size |-> IF entry_size > 1 THEN entry_size ELSE 1]

\* order.rs 21-39 with glf.rs 126-131: List::load
ListLoad(full_input) ==
    LET o == LoaderOrder(SizeOfListOnFile, 0, full_input)
    IN  IF o.tag # "Ok" THEN o ELSE ListFromFile(o.O, full_input)

\* glf.rs 41-44: List::get
ListGet(list, index) ==
    GetRangeOpt(list.data, list.entry_size * index, list.entry_size * (index + 1))

\* glf.rs 50-52: List::len
ListLen(list) == Len(list.data) \div list.entry_size

\* glf.rs 84-92: ListItems::next; split_at panics past the end
ItemsNext(it) ==
    IF it.data = <<>> THEN [it EXCEPT !.item = None, !.ended = TRUE]
    ELSE IF it.entry_size > Len(it.data) THEN [it EXCEPT !.panic = TRUE]
    ELSE [it EXCEPT !.item = Some(Take(it.data, it.entry_size)),
                    !.data = Drop(it.data, it.entry_size)]

\* glf.rs 101-111: ListItems::next_back
ItemsNextBack(it) ==
    IF it.data = <<>> THEN [it EXCEPT !.item = None, !.ended = TRUE]
    ELSE IF it.entry_size > Len(it.data) THEN [it EXCEPT !.panic = TRUE]
    ELSE [it EXCEPT !.item = Some(Drop(it.data, Len(it.data) - it.entry_size)),
                    !.data = Take(it.data, Len(it.data) - it.entry_size)]

\* glf.rs 68-73: into_iter
IntoIter(list) ==
    [data |-> list.data, entry_size |-> list.entry_size, item |-> None,
     ended |-> FALSE, panic |-> FALSE]

(***************************************************************************)
(* Lists on file: both byte orders, entries of 0..MaxEntry bytes, counts   *)
(* of 0..MaxCount, and a body that is exact, one byte short or one long.   *)
(***************************************************************************)
MaxEntry == 2

MaxCount == 3

ListFile(O, entry_size, length, body_len) ==
    WrU16("LE", IF O = "LE" THEN BYTE_ORDER_NATIVE ELSE BYTE_ORDER_SWAPPED)
    \o WrU16(O, 0) \o WrU32(O, entry_size) \o WrU32(O, length)
    \o [i \in 1..body_len |-> 10 + i]

ListInputs ==
    { i \in [O : {"LE", "BE"}, entry_size : 0..MaxEntry, length : 0..MaxCount,
             body_len : 0..(MaxEntry * MaxCount + 1)] :
        i.body_len - i.entry_size * i.length \in {-1, 0, 1} }

InitList ==
    /\ ArchiveIdle
    /\ AtlasIdle
    /\ tmap = LoadIdle /\ modl = LoadIdle /\ gltf = LoadIdle
    /\ lst \in { [pc |-> "call", src |-> i,
                  input |-> ListFile(i.O, i.entry_size, i.length, i.body_len)] :
                  i \in ListInputs }

\* List::load(input), then list.iter()
ListOpen ==
    /\ lst.pc = "call"
    /\ LET r == ListLoad(lst.input)
       IN  lst' = IF r.tag # "Ok" THEN [pc |-> "err", src |-> lst.src, input |-> lst.input]
                  ELSE [pc |-> "iter", src |-> lst.src, input |-> lst.input,
                        list |-> [data |-> r.data, entry_size |-> r.entry_size],
                        it |-> IntoIter(r), front |-> <<>>, back |-> <<>>]
    /\ UNCHANGED <<dec, rol, chunky, call, atlasVars, tmap, modl, gltf>>

\* the iterator after a call that left it as `it`, with the item logged in log
Called(it, log) ==
    [lst EXCEPT !.it = it,
                !.pc = IF it.panic THEN "panic" ELSE IF it.ended THEN "end" ELSE "iter",
                ![log] = IF it.item.some /\ ~it.panic THEN Append(@, it.item.val) ELSE @]

ListNext ==
    /\ lst.pc = "iter"
    /\ lst' = Called(ItemsNext(lst.it), "front")
    /\ UNCHANGED <<dec, rol, chunky, call, atlasVars, tmap, modl, gltf>>

ListNextBack ==
    /\ lst.pc = "iter"
    /\ lst' = Called(ItemsNextBack(lst.it), "back")
    /\ UNCHANGED <<dec, rol, chunky, call, atlasVars, tmap, modl, gltf>>

NextList == ListOpen \/ ListNext \/ ListNextBack

SpecList == InitList /\ [][NextList]_vars

\* element i of the body of the file: the bytes [i * E, (i + 1) * E)
Element(src, i) == [k \in 1..src.entry_size |-> 10 + i * src.entry_size + k]

\* C25: a list that loaded has exactly N elements, element i being the body
\* bytes [i * E, (i + 1) * E); the front calls have yielded elements 0, 1, ..
\* and the back calls elements N - 1, N - 2, .. in this order, no element
\* twice, and the end is reported exactly when all N have been yielded.
C25_ListElements ==
    lst.pc \in {"iter", "end", "panic"} =>
        LET src == lst.src
        IN  /\ ListLen(lst.list) = src.length
            /\ \A i \in 0..(src.length - 1) : ListGet(lst.list, i) = Some(Element(src, i))
            /\ lst.pc # "panic"
            /\ \A k \in 1..Len(lst.front) : lst.front[k] = Element(src, k - 1)
            /\ \A k \in 1..Len(lst.back) : lst.back[k] = Element(src, src.length - k)
            /\ Len(lst.front) + Len(lst.back) <= src.length
            /\ lst.pc = "end" => Len(lst.front) + Len(lst.back) = src.length


(***************************************************************************)
(* tmap.rs: the texture map                                                *)
(***************************************************************************)
SizeOfTextureMapOnFile == 20

BR_PMT_INDEX_8 == 3

\* slice::chunks_exact(n) followed by extend_from_slice(&row[..width]) for
\* every chunk: the bytes of the whole chunks, each cut to width
RECURSIVE CopyRows(_, _, _)
CopyRows(input, stride, width) ==
    IF Len(input) < stride THEN <<>>
    ELSE Take(Take(input, stride), width) \o CopyRows(Drop(input, stride), stride, width)

\* tmap.rs 46-85: TextureMap::into_native
TextureMapIntoNative(O, full_input) ==
    LET stride == RdU16(O, full_input, 4)
        type == full_input[7]
        base_x == RdU16(O, full_input, 8)
        base_y == RdU16(O, full_input, 10)
        width == RdU16(O, full_input, 12)
        height == RdU16(O, full_input, 14)
        origin_x == RdU16(O, full_input, 16)
        origin_y == RdU16(O, full_input, 18)
    IN  IF type # BR_PMT_INDEX_8 THEN Err("Unsupported texture format")
        ELSE IF ~(base_x = 0 /\ base_y = 0 /\ origin_x = 0 /\ origin_y = 0)
        THEN Err("Unsupported texture origin")
        ELSE IF stride # width THEN Panic("assert_eq!(stride, width)")
        ELSE IF stride = 0 THEN Panic("chunk size must be non-zero")
        ELSE [tag |-> "Ok", width |-> width, height |-> height,
              data |-> CopyRows(Drop(full_input, SizeOfTextureMapOnFile), stride, width)]

\* order.rs 21-39 with tmap.rs 34-45: TextureMap::load
TextureMapLoad(full_input) ==
    LET o == LoaderOrder(SizeOfTextureMapOnFile, 0, full_input)
    IN  IF o.tag # "Ok" THEN o ELSE TextureMapIntoNative(o.O, full_input)

\* main.rs 496-501: the source row blit slices for the extents row y; the
\* subtraction height - 1 overflows for height 0, which panics in a build with
\* overflow checks and wraps to u32::MAX in one without
SourceRow(texture_map, y, overflow_checks) ==
    IF texture_map.height = 0 /\ overflow_checks THEN Panic("attempt to subtract with overflow")
    ELSE LET row == IF texture_map.height = 0 THEN y
                    ELSE Clamp(y, 0, texture_map.height - 1)
             row_data == GetRangeOpt(texture_map.data, texture_map.width * row,
                                     texture_map.width * (row + 1))
         IN  IF ~row_data.some THEN Panic("range end index out of range")
             ELSE [tag |-> "Ok", row |-> row_data.val]

(***************************************************************************)
(* Texture maps on file: both byte orders, every stride, width and height  *)
(* up to MaxSide, a body of 0..MaxBody bytes, and headers that are cut or  *)
(* carry another pixel type or a non-zero origin.                          *)
(***************************************************************************)
MaxSide == 2

MaxBody == 5

TextureMapFile(i) ==
    WrU16("LE", IF i.O = "LE" THEN BYTE_ORDER_NATIVE ELSE BYTE_ORDER_SWAPPED)
    \o WrU16(i.O, 0) \o WrU16(i.O, i.stride) \o <<i.type, 0>>
    \o WrU16(i.O, 0) \o WrU16(i.O, 0)
    \o WrU16(i.O, i.width) \o WrU16(i.O, i.height)
    \o WrU16(i.O, 0) \o WrU16(i.O, i.origin_y)
    \o [k \in 1..i.body_len |-> 10 + k]

TextureMapInputs ==
    [O : {"LE", "BE"}, type : {BR_PMT_INDEX_8, 4}, stride : 0..MaxSide,
     width : 0..MaxSide, height : 0..MaxSide, origin_y : {0, 1}, body_len : 0..MaxBody]

InitTmap ==
    /\ ArchiveIdle
    /\ AtlasIdle
    /\ lst = LoadIdle /\ modl = LoadIdle /\ gltf = LoadIdle
    /\ tmap \in { [pc |-> "call", src |-> i,
                   input |-> IF cut THEN Take(TextureMapFile(i), SizeOfTextureMapOnFile - 1)
                             ELSE TextureMapFile(i)] :
                    i \in TextureMapInputs, cut \in BOOLEAN }

\* TextureMap::load(input) (main.rs 177-182)
TextureLoad ==
    /\ tmap.pc = "call"
    /\ LET r == TextureMapLoad(tmap.input)
       IN  tmap' = IF r.tag = "Ok"
                   THEN [pc |-> "ok", src |-> tmap.src, input |-> tmap.input,
                         texture_map |-> [width |-> r.width, height |-> r.height,
                                          data |-> r.data]]
                   ELSE [pc |-> IF r.tag = "Err" THEN "err" ELSE "panic",
                         src |-> tmap.src, input |-> tmap.input]
    /\ UNCHANGED <<dec, rol, chunky, call, atlasVars, lst, modl, gltf>>

\* blit slices the source row for one row y of the extents
BlitRow ==
    /\ tmap.pc = "ok"
    /\ \E y \in 0..MaxExtent, overflow_checks \in BOOLEAN :
          tmap' = [pc |-> "row", src |-> tmap.src, input |-> tmap.input,
                   texture_map |-> tmap.texture_map, y |-> y,
                   row |-> SourceRow(tmap.texture_map, y, overflow_checks)]
    /\ UNCHANGED <<dec, rol, chunky, call, atlasVars, lst, modl, gltf>>

NextTmap == TextureLoad \/ BlitRow

SpecTmap == InitTmap /\ [][NextTmap]_vars

\* C29: a texture map that loaded holds exactly width * height data bytes,
\* and every source row blit slices from it lies inside the data.
C29_TextureDataSize ==
    /\ tmap.pc \in {"ok", "row"} =>
          Len(tmap.texture_map.data) = tmap.texture_map.width * tmap.texture_map.height
    /\ tmap.pc = "row" => tmap.row.tag = "Ok"


(***************************************************************************)
(* modl.rs: recomputing the normals of a model with radius 0               *)
(*                                                                         *)
(* Positions are triples of integers in units of 1 / PosUnit, a part of    *)
(* the 1 / 65536 grid of the 15.16 scalars of the file; a cross product of *)
(* two differences is then in units of 1 / PosUnit^2.  Normals are triples *)
(* of integers in units of 1.  Vertex and face indices are 0-based as in   *)
(* the source.                                                             *)
(***************************************************************************)
PosUnit == 16

VSub(a, b) == <<a[1] - b[1], a[2] - b[2], a[3] - b[3]>>

VAdd(a, b) == <<a[1] + b[1], a[2] + b[2], a[3] + b[3]>>

VNeg(a) == <<0 - a[1], 0 - a[2], 0 - a[3]>>

VDot(a, b) == a[1] * b[1] + a[2] * b[2] + a[3] * b[3]

\* modl.rs 309-313
Cross(a, b) ==
    <<a[2] * b[3] - a[3] * b[2], a[3] * b[1] - a[1] * b[3], a[1] * b[2] - a[2] * b[1]>>

\* magnitude_squared() < 0.0001 for a vector of integers in units of
\* 1 / sqrt(unit4): n / unit4 < 1 / 10000
BelowEpsilon(v, unit4) == VDot(v, v) <= (unit4 - 1) \div 10000

Sign(x) == IF x > 0 THEN 1 ELSE IF x < 0 THEN 0 - 1 ELSE 0

\* Vector3::normalize, exact for a vector along one axis (the meshes of the
\* model lie in the plane z = 0, so every cross product and every sum of
\* normals is along z)
Normalize(v) == <<Sign(v[1]), Sign(v[2]), Sign(v[3])>>

\* mutant of FaceNormal: the normal is not inverted
FaceNormal_m(v) ==
    LET a == VSub(v[1], v[2])
        b == VSub(v[3], v[1])
        n == Cross(a, b)
    IN  IF BelowEpsilon(n, PosUnit * PosUnit * PosUnit * PosUnit)
        THEN <<0, 0, 1>> ELSE Normalize(n)

\* modl.rs 305-319: the normal of a face with the vertex positions v
FaceNormal(v) ==
    LET a == VSub(v[1], v[2])
        b == VSub(v[3], v[1])
        n == Cross(a, b)
    IN  VNeg(IF BelowEpsilon(n, PosUnit * PosUnit * PosUnit * PosUnit)
             THEN <<0, 0, 1>> ELSE Normalize(n))

\* modl.rs 298-332: one face of the loop; d is in units of 1 / PosUnit
PrepFace(vertices, face) ==
    LET v == [k \in 1..3 |-> vertices[face.vertices[k] + 1].position]
        normal == FaceNormal(v)
    IN  [face EXCEPT !.normal = normal,
                     !.d = VDot(normal, v[1]),
                     !.smoothing = IF @ = 0 THEN 65535 ELSE @]

\* vertices[face.vertices[k] as usize] panics for an index past the end
FaceInRange(vertices, face) == \A k \in 1..3 : face.vertices[k] < Len(vertices)

\* modl.rs 334-343: temp_verts
TempVerts(faces) ==
    [k \in 1..(3 * Len(faces)) |->
        [vertex |-> faces[((k - 1) \div 3) + 1].vertices[((k - 1) % 3) + 1],
         face |-> (k - 1) \div 3]]

\* modl.rs 347-354: vertex_compare_smoothing
VertexCompareSmoothing(vertices, a, b) ==
    LET p == vertices[a.vertex + 1].position
        q == vertices[b.vertex + 1].position
    IN  IF p[1] # q[1] THEN (IF p[1] < q[1] THEN "Less" ELSE "Greater")
        ELSE IF p[2] # q[2] THEN (IF p[2] < q[2] THEN "Less" ELSE "Greater")
        ELSE IF p[3] # q[3] THEN (IF p[3] < q[3] THEN "Less" ELSE "Greater")
        ELSE "Equal"

\* modl.rs 359-362: sort_unstable_by may leave equal elements in any order,
\* so every sorted arrangement of the indices in S is an outcome
RECURSIVE SortedVertices(_, _, _)
SortedVertices(S, vertices, temp_verts) ==
    IF S = {} THEN {<<>>}
    ELSE LET least == {x \in S : \A y \in S :
                          VertexCompareSmoothing(vertices, temp_verts[x + 1],
                                                 temp_verts[y + 1]) # "Greater"}
         IN  UNION {{<<x>> \o r : r \in SortedVertices(S \ {x}, vertices, temp_verts)} :
                      x \in least}

\* modl.rs 217-229: GroupBy::next until the slice is empty; same[<<a, b>>] is
\* the closure applied to two neighbouring elements
RECURSIVE GroupBy(_, _)
GroupBy(slice, same) ==
    IF slice = <<>> THEN <<>>
    ELSE LET splits == {i \in 1..(Len(slice) - 1) : ~same[<<slice[i], slice[i + 1]>>]}
             i == IF splits = {} THEN Len(slice)
                  ELSE CHOOSE m \in splits : \A n \in splits : m <= n
         IN  <<Take(slice, i)>> \o GroupBy(Drop(slice, i), same)

\* modl.rs 364-370: the closure handed to GroupBy; a and b are elements of
\* sorted_vertices, and the closure indexes sorted_vertices with them
WeldClosure(vertices, temp_verts, sorted_vertices) ==
    [ab \in (0..(Len(sorted_vertices) - 1)) \X (0..(Len(sorted_vertices) - 1)) |->
        VertexCompareSmoothing(vertices,
                               temp_verts[sorted_vertices[ab[1] + 1] + 1],
                               temp_verts[sorted_vertices[ab[2] + 1] + 1]) = "Equal"]

\* a & b != 0 on u16
RECURSIVE SharesBit(_, _)
SharesBit(a, b) ==
    IF a = 0 \/ b = 0 THEN FALSE
    ELSE (a % 2 = 1 /\ b % 2 = 1) \/ SharesBit(a \div 2, b \div 2)

\* modl.rs 371-380: the additions one weld makes, in the order of the loops
WeldAdds(faces, temp_verts, weld) ==
    LET n == Len(weld)
        pair(k) == [i |-> weld[((k - 1) \div n) + 1], j |-> weld[((k - 1) % n) + 1]]
        shares(k) == SharesBit(faces[temp_verts[pair(k).i + 1].face + 1].smoothing,
                               faces[temp_verts[pair(k).j + 1].face + 1].smoothing)
        all == [k \in 1..(n * n) |->
                   [vertex |-> temp_verts[pair(k).i + 1].vertex,
                    face |-> temp_verts[pair(k).j + 1].face, shares |-> shares(k)]]
        Shares(add) == add.shares
    IN  SelectSeq(all, Shares)

RECURSIVE AllAdds(_, _, _)
AllAdds(faces, temp_verts, welds) ==
    IF welds = <<>> THEN <<>>
    ELSE WeldAdds(faces, temp_verts, Head(welds)) \o AllAdds(faces, temp_verts, Tail(welds))

\* *normal += j.normal for every addition that goes to the given vertex
RECURSIVE SumNormals(_, _, _)
SumNormals(faces, adds, vertex) ==
    IF adds = <<>> THEN <<0, 0, 0>>
    ELSE LET rest == SumNormals(faces, Take(adds, Len(adds) - 1), vertex)
             last == adds[Len(adds)]
         IN  IF last.vertex = vertex THEN VAdd(rest, faces[last.face + 1].normal) ELSE rest

\* modl.rs 345, 364-381: normals after the weld loop
WeldNormals(vertices, faces, temp_verts, welds) ==
    LET adds == AllAdds(faces, temp_verts, welds)
    IN  [v \in 1..Len(vertices) |-> SumNormals(faces, adds, v - 1)]

\* modl.rs 383-389
VertexNormal(normal) ==
    IF BelowEpsilon(normal, 1) THEN <<0, 0, 0 - 1>> ELSE Normalize(normal)

(***************************************************************************)
(* Models: six vertices in the plane z = 0, two of them at the same        *)
(* position and two others close to it, and up to MaxFaces faces from a    *)
(* pool: faces that share vertices or positions, with and without a common *)
(* smoothing bit, a face of small area, a face with a repeated vertex, a   *)
(* face of the other orientation and a face with a vertex index past the   *)
(* end.                                                                    *)
(***************************************************************************)
MaxFaces == 2

ModelVertex(x, y) == [position |-> <<x, y, 0>>, normal |-> <<0, 0, 0>>]

ModelVertices ==
    <<ModelVertex(0, 0), ModelVertex(PosUnit, 0), ModelVertex(0, PosUnit),
      ModelVertex(0, 0), ModelVertex(1, 0), ModelVertex(0, 1)>>

ModelFace(vertices, smoothing) ==
    [vertices |-> vertices, smoothing |-> smoothing, normal |-> <<0, 0, 0>>, d |-> 0]

FacePool ==
    {ModelFace(<<0, 1, 2>>, 1), ModelFace(<<2, 1, 3>>, 1), ModelFace(<<2, 1, 3>>, 2),
     ModelFace(<<0, 1, 2>>, 0), ModelFace(<<0, 4, 5>>, 1), ModelFace(<<0, 0, 1>>, 0),
     ModelFace(<<1, 0, 2>>, 3), ModelFace(<<0, 1, 6>>, 1)}

InitModl ==
    /\ ArchiveIdle
    /\ AtlasIdle
    /\ lst = LoadIdle /\ tmap = LoadIdle /\ gltf = LoadIdle
    /\ modl \in { [pc |-> "call", radius |-> radius, vertices |-> ModelVertices,
                   faces |-> faces, stored |-> faces, temp_verts |-> <<>>,
                   sorted_vertices |-> <<>>, welds |-> <<>>, normals |-> <<>>] :
                   radius \in {0, 65536}, faces \in TokSeqs(FacePool, MaxFaces) }

\* modl.rs 292: the normals are kept as stored
PrepSkip ==
    /\ modl.pc = "call"
    /\ modl.radius # 0 \/ modl.faces = <<>>
    /\ modl' = [modl EXCEPT !.pc = "ok"]
    /\ UNCHANGED <<dec, rol, chunky, call, atlasVars, lst, tmap, gltf>>

\* modl.rs 298-332
PrepFaces ==
    /\ modl.pc = "call"
    /\ modl.radius = 0 /\ modl.faces # <<>>
    /\ modl' = IF \A f \in 1..Len(modl.faces) : FaceInRange(modl.vertices, modl.faces[f])
               THEN [modl EXCEPT !.pc = "sort",
                                 !.faces = [f \in 1..Len(modl.faces) |->
                                               PrepFace(modl.vertices, modl.faces[f])]]
               ELSE [modl EXCEPT !.pc = "panic"]
    /\ UNCHANGED <<dec, rol, chunky, call, atlasVars, lst, tmap, gltf>>

\* modl.rs 334-362
PrepSort ==
    /\ modl.pc = "sort"
    /\ LET temp_verts == TempVerts(modl.faces)
       IN  \E sorted_vertices \in SortedVertices(0..(Len(temp_verts) - 1),
                                                 modl.vertices, temp_verts) :
              modl' = [modl EXCEPT !.pc = "weld", !.temp_verts = temp_verts,
                                   !.sorted_vertices = sorted_vertices]
    /\ UNCHANGED <<dec, rol, chunky, call, atlasVars, lst, tmap, gltf>>

\* modl.rs 364-381
PrepWeld ==
    /\ modl.pc = "weld"
    /\ LET welds == GroupBy(modl.sorted_vertices,
                            WeldClosure(modl.vertices, modl.temp_verts,
                                        modl.sorted_vertices))
       IN  modl' = [modl EXCEPT !.pc = "normalize", !.welds = welds,
                                !.normals = WeldNormals(modl.vertices, modl.faces,
                                                        modl.temp_verts, welds)]
    /\ UNCHANGED <<dec, rol, chunky, call, atlasVars, lst, tmap, gltf>>

\* modl.rs 383-398
PrepNormalize ==
    /\ modl.pc = "normalize"
    /\ modl' = [modl EXCEPT !.pc = "ok",
                            !.vertices = [v \in 1..Len(modl.vertices) |->
                                [modl.vertices[v] EXCEPT
                                    !.normal = VertexNormal(modl.normals[v])]]]
    /\ UNCHANGED <<dec, rol, chunky, call, atlasVars, lst, tmap, gltf>>

NextModl == PrepSkip \/ PrepFaces \/ PrepSort \/ PrepWeld \/ PrepNormalize

SpecModl == InitModl /\ [][NextModl]_vars


\* the position of the vertex of incidence x (an index of temp_verts)
IncidencePosition(x) == modl.vertices[modl.temp_verts[x + 1].vertex + 1].position

\* the incidences x and y are in the same weld
SameWeld(x, y) ==
    \E w \in 1..Len(modl.welds) :
        \E i, j \in 1..Len(modl.welds[w]) : modl.welds[w][i] = x /\ modl.welds[w][j] = y

\* the additions of the pairs (x, y) of incidences at the same position whose
\* faces share a smoothing bit: the normal of the face of y to the vertex of x
PositionAdds ==
    LET n == Len(modl.temp_verts)
        x(k) == (k - 1) \div n
        y(k) == (k - 1) % n
        all == [k \in 1..(n * n) |->
                   [vertex |-> modl.temp_verts[x(k) + 1].vertex,
                    face |-> modl.temp_verts[y(k) + 1].face,
                    keep |-> /\ IncidencePosition(x(k)) = IncidencePosition(y(k))
                             /\ SharesBit(modl.faces[modl.temp_verts[x(k) + 1].face + 1].smoothing,
                                          modl.faces[modl.temp_verts[y(k) + 1].face + 1].smoothing)]]
        Keep(add) == add.keep
    IN  SelectSeq(all, Keep)

\* C21: after the weld loop, two incidences are in the same weld if and only
\* if their vertices have the same position, and the normal accumulated for
\* every vertex is the sum of the face normals of the pairs (i, j) of
\* incidences at one position whose faces share a smoothing bit, the normal
\* of the face of j going to the vertex of i.
C21_WeldClusters ==
    modl.pc \in {"normalize", "ok"} /\ modl.temp_verts # <<>> =>
        /\ \A x, y \in 0..(Len(modl.temp_verts) - 1) :
              SameWeld(x, y) <=> IncidencePosition(x) = IncidencePosition(y)
        /\ \A v \in 1..Len(modl.vertices) :
              modl.normals[v] = SumNormals(modl.faces, PositionAdds, v - 1)

\* a x b for the stored face f, from the positions of its vertices
StoredCross(f) ==
    LET v == [k \in 1..3 |-> modl.vertices[modl.stored[f].vertices[k] + 1].position]
    IN  Cross(VSub(v[1], v[2]), VSub(v[3], v[1]))

\* |a x b|^2 < 10^-4, the cross product being in units of 1 / PosUnit^2
Degenerate(f) ==
    10000 * VDot(StoredCross(f), StoredCross(f)) < PosUnit * PosUnit * PosUnit * PosUnit

\* the face loop of a model with radius 0 has run
FacesPrepared == modl.pc \in {"sort", "weld", "normalize", "ok"} /\ modl.radius = 0

\* C22 as stated: a degenerate face has the normal (0, 0, 1), and a stored
\* smoothing mask of 0 has become 0xFFFF.
C22_Original ==
    FacesPrepared =>
        \A f \in 1..Len(modl.faces) :
            /\ Degenerate(f) => modl.faces[f].normal = <<0, 0, 1>>
            /\ modl.stored[f].smoothing = 0 => modl.faces[f].smoothing = 65535

\* C22: a degenerate face has the normal (0, 0, -1), the substitute (0, 0, 1)
\* inverted like every other face normal, and a stored smoothing mask of 0
\* has become 0xFFFF.
C22_Amended ==
    FacesPrepared =>
        \A f \in 1..Len(modl.faces) :
            /\ Degenerate(f) => modl.faces[f].normal = <<0, 0, 0 - 1>>
            /\ modl.stored[f].smoothing = 0 => modl.faces[f].smoothing = 65535

C22_Witness ==
    /\ FacesPrepared
    /\ modl.pc = "ok"
    /\ \E f \in 1..Len(modl.faces) :
          Degenerate(f) /\ StoredCross(f) # <<0, 0, 0>> /\ modl.stored[f].smoothing # 0
    /\ \E f \in 1..Len(modl.faces) :
          Degenerate(f) /\ StoredCross(f) = <<0, 0, 0>> /\ modl.stored[f].smoothing = 0


(***************************************************************************)
(* main.rs: export_model, the node graph and the binary buffer             *)
(*                                                                         *)
(* Nodes are numbered as in doc.nodes (0 is the Armature); a part is the   *)
(* model the part loop finds for it, or None.                              *)
(***************************************************************************)
PARENT_ROOT == 65535

\* byteorder write_f32::<LittleEndian> for the values the meshes use
F32LE(x) ==
    IF x = 0 THEN <<0, 0, 0, 0>>
    ELSE IF x = 1 THEN <<0, 0, 128, 63>>
    ELSE <<0, 0, 128, 191>>

GltfNode(name, index, children) == [name |-> name, index |-> index, children |-> children]

\* main.rs 804-876: the three nodes of every joint, in the order pushed
ArmatureNodes(n) ==
    [k \in 1..(3 * n) |->
        LET index == (k - 1) \div 3
        IN  IF k % 3 = 1 THEN GltfNode("scale", index, Some(<<k + 1>>))
            ELSE IF k % 3 = 2 THEN GltfNode("rotate", index, Some(<<k + 1>>))
            ELSE GltfNode("translate", index, None)]

\* main.rs 809: armature_nodes[index] = (scale_node, translate_node)
ArmaturePairs(n) == [i \in 1..n |-> <<3 * i - 2, 3 * i>>]

\* main.rs 881-884: the node a joint with this parent index hangs under
ParentNode(armature_nodes, parent_index) ==
    IF parent_index = PARENT_ROOT THEN Some(0)
    ELSE IF parent_index < Len(armature_nodes)
    THEN Some(armature_nodes[parent_index + 1][2])
    ELSE None

\* main.rs 888-892: children.get_or_insert(Vec::new()).push(node)
PushChild(nodes, parent, child) ==
    [nodes EXCEPT ![parent + 1].children =
        Some((IF @.some THEN @.val ELSE <<>>) \o <<child>>)]

\* main.rs 878-893: the loop over the first `upto` parents
RECURSIVE LinkParents(_, _, _, _)
LinkParents(nodes, armature_nodes, parents, upto) ==
    IF upto = 0 THEN [tag |-> "Ok", nodes |-> nodes]
    ELSE LET before == LinkParents(nodes, armature_nodes, parents, upto - 1)
             parent_node == ParentNode(armature_nodes, parents[upto])
         IN  IF before.tag # "Ok" THEN before
             ELSE IF ~parent_node.some THEN Err("parent index out of range")
             ELSE [tag |-> "Ok",
                   nodes |-> PushChild(before.nodes, parent_node.val,
                                       armature_nodes[upto][1])]

\* mutant of PadLen: the remainder is not shifted by 3
PadLen_m(len) == 3 - (len % 4)

\* main.rs 1149: the zero bytes after the indices
PadLen(len) == 3 - ((len + 3) % 4)

RECURSIVE VertexBytes(_, _)
\* main.rs 1014-1018, 1058-1062, 1094-1098: one f32 per component
VertexBytes(vertices, field) ==
    IF vertices = <<>> THEN <<>>
    ELSE LET v == Head(vertices)[field]
         IN  Flatten([k \in 1..Len(v) |-> F32LE(v[k])]) \o VertexBytes(Tail(vertices), field)

RECURSIVE IndexBytes(_)
\* main.rs 1130-1134
IndexBytes(faces) ==
    IF faces = <<>> THEN <<>>
    ELSE Flatten([k \in 1..3 |-> WrU16("LE", Head(faces).vertices[k])])
         \o IndexBytes(Tail(faces))

View(name, index, byte_offset, byte_length) ==
    [name |-> name, index |-> index, byte_offset |-> byte_offset, byte_length |-> byte_length]

\* main.rs 1012-1149: what one part with faces adds to the buffer and the views
WritePart(g, index, model) ==
    LET positions == VertexBytes(model.vertices, "position")
        normals == VertexBytes(model.vertices, "normal")
        texcoords == VertexBytes(model.vertices, "map")
        indices == IndexBytes(model.faces)
        position_offset == Len(g.buffer)
        normal_offset == position_offset + Len(positions)
        texcoord_offset == normal_offset + Len(normals)
        index_offset == texcoord_offset + Len(texcoords)
        unpadded == g.buffer \o positions \o normals \o texcoords \o indices
    IN  [g EXCEPT
           !.buffer = unpadded \o [k \in 1..PadLen(Len(unpadded)) |-> 0],
           !.buffer_views = @ \o
              <<View("positions", index, position_offset, Len(positions)),
                View("normals", index, normal_offset, Len(normals)),
                View("texcoords", index, texcoord_offset, Len(texcoords)),
                View("indices", index, index_offset, Len(indices))>>,
           !.meshes = Append(@, [node |-> g.armature_nodes[index + 1][2], part |-> index])]

(***************************************************************************)
(* Templates for the export: every list of up to MaxJoints parent indices  *)
(* (the root marker, valid and invalid joints), parts with and without a   *)
(* model, one part fewer or more than joints, and meshes of several sizes. *)
(***************************************************************************)
MaxJoints == 2

MeshVertex(k) == [position |-> <<k % 2, 0, 1>>, normal |-> <<0, 0, 0 - 1>>, map |-> <<0, 1>>]

Mesh(vertex_count, face_count) ==
    [vertices |-> [k \in 1..vertex_count |-> MeshVertex(k)],
     faces |-> [f \in 1..face_count |-> [vertices |-> <<0, 1, f>>]]]

Meshes == {Mesh(1, 0), Mesh(0, 1), Mesh(1, 1), Mesh(2, 2), Mesh(3, 3)}

ExportInputs ==
    { [parents |-> parents,
       parts |-> [k \in 1..Len(with) |-> IF with[k] THEN Some(mesh) ELSE None]] :
        parents \in TokSeqs({PARENT_ROOT} \cup 0..MaxJoints, MaxJoints),
        with \in TokSeqs(BOOLEAN, MaxJoints + 1), mesh \in Meshes }

InitGltf ==
    /\ ArchiveIdle
    /\ AtlasIdle
    /\ lst = LoadIdle /\ tmap = LoadIdle /\ modl = LoadIdle
    /\ gltf \in { [pc |-> "armature", parents |-> i.parents, parts |-> i.parts,
                   nodes |-> <<GltfNode("Armature", 0, None)>>, armature_nodes |-> <<>>,
                   buffer |-> <<>>, buffer_views |-> <<>>, meshes |-> <<>>, index |-> 0,
                   result |-> [tag |-> "None"]] :
                   i \in {x \in ExportInputs :
                            Len(x.parts) - Len(x.parents) \in {0 - 1, 0, 1}} }

GltfEnd(g, r) ==
    [g EXCEPT !.pc = IF r.tag = "Ok" THEN "done" ELSE IF r.tag = "Err" THEN "err" ELSE "panic",
              !.result = r]

\* main.rs 804-876; cells[0].parts[index] panics for a joint without a part
ExportArmature ==
    /\ gltf.pc = "armature"
    /\ gltf' = IF Len(gltf.parents) > Len(gltf.parts)
               THEN GltfEnd(gltf, Panic("index out of bounds"))
               ELSE [gltf EXCEPT !.pc = "parents",
                                 !.nodes = @ \o ArmatureNodes(Len(gltf.parents)),
                                 !.armature_nodes = ArmaturePairs(Len(gltf.parents))]
    /\ UNCHANGED <<dec, rol, chunky, call, atlasVars, lst, tmap, modl>>

\* main.rs 878-893
ExportParents ==
    /\ gltf.pc = "parents"
    /\ LET r == LinkParents(gltf.nodes, gltf.armature_nodes, gltf.parents, Len(gltf.parents))
       IN  gltf' = IF r.tag # "Ok" THEN GltfEnd(gltf, r)
                   ELSE [gltf EXCEPT !.pc = "parts", !.nodes = r.nodes]
    /\ UNCHANGED <<dec, rol, chunky, call, atlasVars, lst, tmap, modl>>

\* main.rs 989-1189: one iteration of the loop over the parts
ExportPart ==
    /\ gltf.pc = "parts"
    /\ gltf.index < Len(gltf.parts)
    /\ LET model == gltf.parts[gltf.index + 1]
           next == [gltf EXCEPT !.index = @ + 1]
       IN  gltf' = IF ~model.some THEN next
                   ELSE IF gltf.index >= Len(gltf.armature_nodes)
                   THEN GltfEnd(gltf, Err("node index out of range"))
                   ELSE IF model.val.faces = <<>> THEN next
                   ELSE WritePart(next, gltf.index, model.val)
    /\ UNCHANGED <<dec, rol, chunky, call, atlasVars, lst, tmap, modl>>

\* main.rs 1191-1204
ExportWrite ==
    /\ gltf.pc = "parts"
    /\ gltf.index = Len(gltf.parts)
    /\ \E io_ok \in BOOLEAN :
          gltf' = GltfEnd(gltf, IF io_ok THEN [tag |-> "Ok"] ELSE Err("io"))
    /\ UNCHANGED <<dec, rol, chunky, call, atlasVars, lst, tmap, modl>>

NextGltf == ExportArmature \/ ExportParents \/ ExportPart \/ ExportWrite

SpecGltf == InitGltf /\ [][NextGltf]_vars


RoundUp4(n) == ((n + 3) \div 4) * 4

\* C23: the buffer length is a multiple of 4 after every part, every buffer
\* view starts at a multiple of 4, and an index view counts the 6 bytes of
\* every face only: the bytes between its end and the next multiple of 4 are
\* zero, and the next view (or the end of the buffer) is at that multiple.
C23_AlignedViews ==
    /\ Len(gltf.buffer) % 4 = 0
    /\ \A v \in 1..Len(gltf.buffer_views) :
          LET view == gltf.buffer_views[v]
              end == view.byte_offset + view.byte_length
          IN  /\ view.byte_offset % 4 = 0
              /\ view.name = "indices" =>
                    /\ view.byte_length = 6 * Len(gltf.parts[view.index + 1].val.faces)
                    /\ RoundUp4(end) <= Len(gltf.buffer)
                    /\ \A p \in (end + 1)..RoundUp4(end) : gltf.buffer[p] = 0
                    /\ RoundUp4(end) = IF v < Len(gltf.buffer_views)
                                       THEN gltf.buffer_views[v + 1].byte_offset
                                       ELSE Len(gltf.buffer)

C23_Witness ==
    /\ gltf.pc = "done"
    /\ \E v \in 1..Len(gltf.buffer_views) :
          /\ gltf.buffer_views[v].name = "indices"
          /\ gltf.buffer_views[v].byte_length % 4 = 2
          /\ v < Len(gltf.buffer_views)

\* the children of node n as a sequence
ChildrenOf(n) == IF gltf.nodes[n + 1].children.some THEN gltf.nodes[n + 1].children.val ELSE <<>>

\* the places (node, position in its children) where node c is listed
ListedAt(c) ==
    {nk \in (0..(Len(gltf.nodes) - 1)) \X (1..Len(gltf.nodes)) :
        nk[2] <= Len(ChildrenOf(nk[1])) /\ ChildrenOf(nk[1])[nk[2]] = c}

RECURSIVE ReachableFrom(_)
ReachableFrom(S) ==
    LET T == S \cup {c \in 0..(Len(gltf.nodes) - 1) : \E n \in S : ListedAt(c) \cap ({n} \X (1..Len(gltf.nodes))) # {}}
    IN  IF T = S THEN S ELSE ReachableFrom(T)

\* the graph is a tree rooted at node 0
IsTree ==
    /\ ListedAt(0) = {}
    /\ \A c \in 1..(Len(gltf.nodes) - 1) : Cardinality(ListedAt(c)) = 1
    /\ ReachableFrom({0}) = 0..(Len(gltf.nodes) - 1)

ValidParent(p) == p = PARENT_ROOT \/ p < Len(gltf.parents)

\* C24: once the parent loop has passed, every joint i has the nodes
\* 3i + 1 (scale), 3i + 2 (rotate) and 3i + 3 (translate) chained in this
\* order, its scale node is listed as a child exactly once, under the
\* Armature for parent 65535 and under the translate node of the parent
\* joint otherwise, every parent index is valid (an invalid one ends the
\* export in a failure), and the graph is a tree rooted at the Armature.
C24_ArmatureTree ==
    /\ gltf.pc \in {"parts", "done"} =>
          /\ \A i \in 0..(Len(gltf.parents) - 1) :
                /\ ChildrenOf(3 * i + 1) = <<3 * i + 2>>
                /\ ChildrenOf(3 * i + 2) = <<3 * i + 3>>
                /\ ValidParent(gltf.parents[i + 1])
                /\ Cardinality(ListedAt(3 * i + 1)) = 1
                /\ \E nk \in ListedAt(3 * i + 1) :
                      nk[1] = IF gltf.parents[i + 1] = PARENT_ROOT THEN 0
                              ELSE 3 * gltf.parents[i + 1] + 3
          /\ IsTree
    /\ (gltf.pc # "armature" /\ gltf.pc # "parents"
            /\ \E i \in 1..Len(gltf.parents) : ~ValidParent(gltf.parents[i]))
          => gltf.pc \in {"err", "panic"}


\* C30: every image URI of the document of a template names a PNG file that
\* pack_textures wrote for this template.
C30_ImagesHavePngs ==
    \A w \in Workers :
        LET f == tex.worker[w]
        IN  f.pc = "done" =>
               \A k \in 1..Len(f.images) :
                   \E i \in 1..Len(f.files) : f.files[i].path = f.images[k]

====
